---- MODULE Spec2Model ----
(***************************************************************************)
(* Model of the cerver storage core: the B+ tree index                     *)
(* (database/physical/b_plus_tree.c) and the table / row store built on    *)
(* it (database/logical/database.c).                                       *)
(***************************************************************************)
EXTENDS Integers, Sequences, FiniteSets, TLC

(***************************************************************************)
(* Program constants of b_plus_tree.h                                      *)
(***************************************************************************)
MAX_KEYS == 4
MIN_KEYS == MAX_KEYS \div 2
NULL == 0

(***************************************************************************)
(* Bounds of the model                                                     *)
(***************************************************************************)
\* number of heap cells available to one tree
MaxNodes == 12
\* keys handed to insert_key are drawn from 1..MaxKey
MaxKey == 31
\* number of keys stored in the tree at one time
MaxLive == 16
\* number of distinct keys deleted in one behaviour of the sweep workload
MaxDeletes == 1
\* keys of the random workload are drawn from 1..MaxRandomKey
MaxRandomKey == 6
\* number of times one key is deleted in one behaviour
MaxGen == 1

NodeIds == 1..MaxNodes

(***************************************************************************)
(* Heap of BPlusTreeNode structs.  A cell that is not allocated (never     *)
(* malloc'ed, or free'd) holds FREED.  Arrays keep C's 0-based indices.    *)
(* keys / file_offsets are kept for the slots 0..num_keys-1 only (the code *)
(* never reads a slot at or above num_keys); children keeps all            *)
(* MAX_KEYS+1 slots, stale ones included.                                  *)
(***************************************************************************)
FREED == [freed |-> TRUE]

IsNode(h, id) == id \in NodeIds /\ h[id] # FREED

\* create_new_node(is_leaf): the struct as initialised by the function
BPlusTreeNode(is_leaf) ==
  [is_leaf      |-> is_leaf,
   num_keys     |-> 0,
   keys         |-> <<>>,
   file_offsets |-> <<>>,
   children     |-> [i \in 0..MAX_KEYS |-> NULL],
   parent       |-> NULL,
   next         |-> NULL]

\* malloc: the lowest free cell (allocation is assumed to succeed)
create_new_node(h) ==
  CHOOSE id \in NodeIds : h[id] = FREED /\ \A j \in NodeIds : h[j] = FREED => id <= j

\* free(node)
free(h, id) == [h EXCEPT ![id] = FREED]

\* the BPlusTree struct together with the nodes it owns
\* (ev is a history field: the structural steps taken by the operation in
\* progress; no operation reads it)
BPlusTree(h, root) == [nodes |-> h, root |-> root, order |-> MAX_KEYS + 1, ev |-> {}]

Ev(T, e) == [T EXCEPT !.ev = @ \cup {e}]

\* a NULL BPlusTree pointer
NULL_TREE == [nodes |-> [i \in NodeIds |-> FREED], root |-> NULL, order |-> 0, ev |-> {}]

\* initialize_tree(): the root starts as a leaf with zero keys
initialize_tree ==
  BPlusTree([i \in NodeIds |-> IF i = 1 THEN BPlusTreeNode(TRUE) ELSE FREED], 1)

(***************************************************************************)
(* Array helpers (0-based)                                                 *)
(***************************************************************************)
\* f[0..n-1] with v inserted at position p: the shift-right loops
InsertAt(f, n, p, v) ==
  [i \in 0..n |-> IF i < p THEN f[i] ELSE IF i = p THEN v ELSE f[i - 1]]

\* f[0..n-1] with position p removed: the shift-left loops
RemoveAt(f, n, p) ==
  [i \in 0..(n - 2) |-> IF i < p THEN f[i] ELSE f[i + 1]]

\* f[lo..hi] re-based at 0
Slice(f, lo, hi) == [i \in 0..(hi - lo) |-> f[lo + i]]

(***************************************************************************)
(* Search                                                                  *)
(***************************************************************************)
\* a fault for ChildSlot: the descent compares with > instead of >=
ChildSlotStrict(n, key) ==
  CHOOSE i \in 0..n.num_keys :
     /\ (i = n.num_keys \/ key <= n.keys[i])
     /\ \A j \in 0..(i - 1) : key > n.keys[j]

\* a fault for ChildSlot: the descent always takes the last slot of the array
ChildSlot_Last(n, key) == MAX_KEYS

\* inner loop of find_leaf_node: while (i < num_keys && key >= keys[i]) i++
ChildSlot(n, key) ==
  CHOOSE i \in 0..n.num_keys :
     /\ (i = n.num_keys \/ key < n.keys[i])
     /\ \A j \in 0..(i - 1) : key >= n.keys[j]

RECURSIVE find_leaf_node(_, _, _)
find_leaf_node(h, node, key) ==
  IF node = NULL THEN NULL
  ELSE IF h[node].is_leaf THEN node
  ELSE find_leaf_node(h, h[node].children[ChildSlot(h[node], key)], key)

search_key(T, key) ==
  IF T = NULL_TREE \/ T.root = NULL THEN -1
  ELSE LET leaf == find_leaf_node(T.nodes, T.root, key) IN
       IF leaf = NULL THEN -1
       ELSE LET n == T.nodes[leaf] IN
            IF \E i \in 0..(n.num_keys - 1) : n.keys[i] = key
            THEN n.file_offsets[CHOOSE i \in 0..(n.num_keys - 1) :
                                   n.keys[i] = key /\ \A j \in 0..(i - 1) : n.keys[j] # key]
            ELSE -1

(***************************************************************************)
(* Insertion                                                               *)
(***************************************************************************)
\* position chosen by insert_into_leaf: scan from the right while key < keys[i]
LeafSlot(n, key) ==
  CHOOSE p \in 0..n.num_keys :
     /\ (p = 0 \/ ~(key < n.keys[p - 1]))
     /\ \A j \in p..(n.num_keys - 1) : key < n.keys[j]

insert_into_leaf(h, leaf, key, file_offset) ==
  LET n == h[leaf]
      p == LeafSlot(n, key)
  IN [h EXCEPT ![leaf] = [n EXCEPT
         !.keys         = InsertAt(n.keys, n.num_keys, p, key),
         !.file_offsets = InsertAt(n.file_offsets, n.num_keys, p, file_offset),
         !.num_keys     = n.num_keys + 1]]

\* insert_into_node: key at keys[index], right_child at children[index+1]
insert_into_node(h, node, index, key, right_child) ==
  LET n == h[node]
      h1 == [h EXCEPT ![node] = [n EXCEPT
               !.keys     = InsertAt(n.keys, n.num_keys, index, key),
               !.children = [i \in 0..MAX_KEYS |->
                               IF i <= index THEN n.children[i]
                               ELSE IF i = index + 1 THEN right_child
                               ELSE IF i <= n.num_keys + 1 THEN n.children[i - 1]
                               ELSE n.children[i]],
               !.num_keys = n.num_keys + 1]]
  IN IF right_child # NULL
     THEN [h1 EXCEPT ![right_child].parent = node]
     ELSE h1

\* while (index < parent->num_keys && parent->children[index] != left) index++
ParentSlot(p, left) ==
  CHOOSE i \in 0..p.num_keys :
     /\ (i = p.num_keys \/ p.children[i] = left)
     /\ \A j \in 0..(i - 1) : p.children[j] # left

\* a fault for SetParents: of more than two moved children, one keeps the
\* parent pointer it had
SetParents_LeavesOne(h, cs, p) ==
  LET skip == IF Cardinality(cs) > 2 THEN {CHOOSE c \in cs : \A d \in cs : c <= d} ELSE {}
  IN [i \in NodeIds |-> IF i \in cs \ skip /\ i # NULL THEN [h[i] EXCEPT !.parent = p] ELSE h[i]]

\* a fault for SetParents: no parent pointer is set
SetParents_None(h, cs, p) == h

\* set the parent pointer of every non-NULL node of the set cs
SetParents(h, cs, p) ==
  [i \in NodeIds |-> IF i \in cs /\ i # NULL THEN [h[i] EXCEPT !.parent = p] ELSE h[i]]

\* a fault for Unparent: the new root keeps the parent reference it had
Unparent_Kept(h, node) == h

\* if (node) node->parent = NULL: the node that becomes the root
Unparent(h, node) == IF node # NULL THEN [h EXCEPT ![node].parent = NULL] ELSE h

\* a fault for SplitParent: the split is propagated from the child again
SplitParent_Child(left, parent) == left

\* insert_into_parent(tree, parent, k_prime, new_internal): the node a split
\* of the parent is propagated from
SplitParent(left, parent) == parent

RECURSIVE insert_into_parent(_, _, _, _)
insert_into_parent(T, left, key, right) ==
  LET h == T.nodes
      parent == h[left].parent
  IN
  IF parent = NULL THEN
     \* Case 1: left was the root, create a new root
     LET new_root == create_new_node(h)
         nr == [BPlusTreeNode(FALSE) EXCEPT
                  !.keys = [i \in 0..0 |-> key],
                  !.children = [i \in 0..MAX_KEYS |->
                                  IF i = 0 THEN left ELSE IF i = 1 THEN right ELSE NULL],
                  !.num_keys = 1]
         h1 == [h EXCEPT ![new_root] = nr]
     IN Ev([T EXCEPT !.nodes = SetParents(h1, {left, right}, new_root),
                     !.root = new_root], "new_root")
  ELSE
     LET p == h[parent]
         index == ParentSlot(p, left)
     IN
     IF p.num_keys < MAX_KEYS THEN
        \* Case 2a
        [T EXCEPT !.nodes = insert_into_node(h, parent, index, key, right)]
     ELSE
        \* Case 2b: split the full parent
        LET temp_keys == InsertAt(p.keys, p.num_keys, index, key)
            temp_children == [i \in 0..(MAX_KEYS + 1) |->
                                IF i <= index THEN p.children[i]
                                ELSE IF i = index + 1 THEN right
                                ELSE p.children[i - 1]]
            new_internal == create_new_node(h)
            split_point_key_index == MAX_KEYS \div 2
            k_prime == temp_keys[split_point_key_index]
            left_num == split_point_key_index
            right_num == MAX_KEYS - left_num
            \* the original node keeps children[0..left_num]; slots above are not touched
            p1 == [p EXCEPT
                     !.num_keys = left_num,
                     !.keys = Slice(temp_keys, 0, left_num - 1),
                     !.children = [i \in 0..MAX_KEYS |->
                                     IF i <= left_num THEN temp_children[i]
                                     ELSE p.children[i]]]
            ni == [BPlusTreeNode(FALSE) EXCEPT
                     !.parent = p.parent,
                     !.num_keys = right_num,
                     !.keys = Slice(temp_keys, split_point_key_index + 1, MAX_KEYS),
                     !.children = [i \in 0..MAX_KEYS |->
                                     IF i < right_num
                                     THEN temp_children[split_point_key_index + 1 + i]
                                     ELSE IF i = right_num THEN temp_children[MAX_KEYS + 1]
                                     ELSE NULL]]
            h1 == [h EXCEPT ![parent] = p1, ![new_internal] = ni]
            moved == {ni.children[i] : i \in 0..right_num}
            h2 == SetParents(h1, moved, new_internal)
        IN insert_into_parent(Ev([T EXCEPT !.nodes = h2], "internal_split"),
                              SplitParent(left, parent), k_prime, new_internal)

\* while (i < MAX_KEYS && key > leaf->keys[i]) i++   (leaf is full)
SplitSlot(n, key) ==
  CHOOSE i \in 0..MAX_KEYS :
     /\ (i = MAX_KEYS \/ ~(key > n.keys[i]))
     /\ \A j \in 0..(i - 1) : key > n.keys[j]

insert_key(T, key, file_offset) ==
  IF T = NULL_TREE \/ T.root = NULL THEN T
  ELSE
  LET h == T.nodes
      r == h[T.root]
  IN
  IF r.is_leaf /\ r.num_keys = 0
  THEN [T EXCEPT !.nodes = insert_into_leaf(h, T.root, key, file_offset)]
  ELSE
  LET leaf == find_leaf_node(h, T.root, key) IN
  IF leaf = NULL THEN T
  ELSE
  LET n == h[leaf] IN
  IF n.num_keys < MAX_KEYS
  THEN [T EXCEPT !.nodes = insert_into_leaf(h, leaf, key, file_offset)]
  ELSE
  LET i == SplitSlot(n, key)
      temp_keys == InsertAt(n.keys, MAX_KEYS, i, key)
      temp_offsets == InsertAt(n.file_offsets, MAX_KEYS, i, file_offset)
      new_leaf == create_new_node(h)
      split_point == (MAX_KEYS + 1) \div 2
      m == (MAX_KEYS + 1) - split_point
      n1 == [n EXCEPT
               !.num_keys = split_point,
               !.keys = Slice(temp_keys, 0, split_point - 1),
               !.file_offsets = Slice(temp_offsets, 0, split_point - 1),
               !.next = new_leaf]
      nl == [BPlusTreeNode(TRUE) EXCEPT
               !.parent = n.parent,
               !.num_keys = m,
               !.keys = Slice(temp_keys, split_point, MAX_KEYS),
               !.file_offsets = Slice(temp_offsets, split_point, MAX_KEYS),
               !.next = n.next]
      h1 == [h EXCEPT ![leaf] = n1, ![new_leaf] = nl]
  IN insert_into_parent(Ev([T EXCEPT !.nodes = h1], "leaf_split"),
                        leaf, nl.keys[0], new_leaf)

(***************************************************************************)
(* Deletion                                                                *)
(***************************************************************************)
\* while (idx <= parent->num_keys && parent->children[idx] != node) idx++
\* (num_keys + 1 when the node is not among the parent's children)
NodeIndexInParent(p, node) ==
  CHOOSE i \in 0..(p.num_keys + 1) :
     /\ (i = p.num_keys + 1 \/ p.children[i] = node)
     /\ \A j \in 0..(i - 1) : p.children[j] # node

\* a fault for RightSeparator: the key that has just been lent stays in the
\* parent
RightSeparator_Lent(n, rs) == rs.keys[0]

\* borrow from the right sibling: parent->keys[k_prime_index] =
\* right_sibling->keys[1] for leaves (the first key that stays), and
\* right_sibling->keys[0] for internal nodes (the key rotated out)
RightSeparator(n, rs) == IF n.is_leaf THEN rs.keys[1] ELSE rs.keys[0]

\* a fault for CanLend: no sibling ever lends
CanLend_Never(sib) == FALSE

\* a fault for CanLend: a sibling holding exactly MIN_KEYS keys lends
CanLendAtMin(sib) == sib.num_keys >= MIN_KEYS

\* if (left_sibling->num_keys > MIN_KEYS) / if (right_sibling->num_keys > MIN_KEYS)
CanLend(sib) == sib.num_keys > MIN_KEYS

\* a fault for MergedNext: the leaf chain is not relinked on a merge
MergedNextKept(l, r) == l.next

\* if (left_node->is_leaf) left_node->next = right_node->next
MergedNext(l, r) == IF l.is_leaf THEN r.next ELSE l.next

\* a fault for MergedBase: the separator is not pulled down
MergedBase_NoSeparator(l) == l.num_keys

\* if (!left_node->is_leaf) { left_node->keys[left_node->num_keys] = k_prime;
\* left_node->num_keys++; }: where the entries of the right node start
MergedBase(l) == IF l.is_leaf THEN l.num_keys ELSE l.num_keys + 1

RECURSIVE handle_underflow(_, _)
RECURSIVE merge_nodes(_, _, _, _, _)

merge_nodes(T, left_node, right_node, k_prime_index, k_prime) ==
  LET h == T.nodes
      l == h[left_node]
      r == h[right_node]
      parent == l.parent
      p == h[parent]
      \* pull the separator down for internal nodes
      base == MergedBase(l)
      total == base + r.num_keys
      l1 == [l EXCEPT
               !.num_keys = total,
               !.keys = [i \in 0..(total - 1) |->
                           IF i < l.num_keys THEN l.keys[i]
                           ELSE IF i < base THEN k_prime
                           ELSE r.keys[i - base]],
               !.file_offsets = IF l.is_leaf
                                THEN [i \in 0..(total - 1) |->
                                        IF i < l.num_keys THEN l.file_offsets[i]
                                        ELSE r.file_offsets[i - base]]
                                ELSE l.file_offsets,
               !.children = IF l.is_leaf THEN l.children
                            ELSE [i \in 0..MAX_KEYS |->
                                    IF i >= base /\ i <= total THEN r.children[i - base]
                                    ELSE l.children[i]],
               !.next = MergedNext(l, r)]
      moved == IF l.is_leaf THEN {} ELSE {r.children[i] : i \in 0..r.num_keys}
      p1 == [p EXCEPT
               !.num_keys = p.num_keys - 1,
               !.keys = RemoveAt(p.keys, p.num_keys, k_prime_index),
               !.children = [i \in 0..MAX_KEYS |->
                               IF i = p.num_keys THEN NULL
                               ELSE IF i > k_prime_index /\ i < p.num_keys THEN p.children[i + 1]
                               ELSE p.children[i]]]
      h1 == SetParents([h EXCEPT ![left_node] = l1, ![parent] = p1], moved, left_node)
      h2 == free(h1, right_node)
      T2 == Ev([T EXCEPT !.nodes = h2], IF l.is_leaf THEN "merge_leaf" ELSE "merge_internal")
  IN
  IF parent # T.root /\ p1.num_keys < MIN_KEYS
  THEN handle_underflow(T2, parent)
  ELSE IF h2[T.root].num_keys = 0 /\ ~h2[T.root].is_leaf
  THEN \* the merged node becomes the new root
       Ev([T2 EXCEPT !.root = left_node,
                     !.nodes = free(Unparent(h2, left_node), T.root)],
          "root_collapse")
  ELSE T2

handle_underflow(T, node) ==
  LET h == T.nodes IN
  IF node = NULL \/ node = T.root \/ h[node].num_keys >= MIN_KEYS THEN T
  ELSE
  LET n == h[node]
      parent == n.parent
  IN
  IF parent = NULL THEN T
  ELSE
  LET p == h[parent]
      node_index_in_parent == NodeIndexInParent(p, node)
  IN
  IF node_index_in_parent > p.num_keys THEN T
  ELSE
  LET hasLeft == node_index_in_parent > 0
      hasRight == node_index_in_parent < p.num_keys
      left_sibling == IF hasLeft THEN p.children[node_index_in_parent - 1] ELSE NULL
      right_sibling == p.children[IF node_index_in_parent < MAX_KEYS
                                  THEN node_index_in_parent + 1 ELSE MAX_KEYS]
  IN
  IF hasLeft /\ CanLend(h[left_sibling]) THEN
     \* borrow from the left sibling
     LET ls == h[left_sibling]
         k_prime_index == node_index_in_parent - 1
         n1 == IF n.is_leaf
               THEN [n EXCEPT
                       !.keys = InsertAt(n.keys, n.num_keys, 0, ls.keys[ls.num_keys - 1]),
                       !.file_offsets = InsertAt(n.file_offsets, n.num_keys, 0,
                                                 ls.file_offsets[ls.num_keys - 1]),
                       !.num_keys = n.num_keys + 1]
               ELSE [n EXCEPT
                       !.keys = InsertAt(n.keys, n.num_keys, 0, p.keys[k_prime_index]),
                       !.children = [i \in 0..MAX_KEYS |->
                                       IF i = 0 THEN ls.children[ls.num_keys]
                                       ELSE IF i <= n.num_keys + 1 THEN n.children[i - 1]
                                       ELSE n.children[i]],
                       !.num_keys = n.num_keys + 1]
         p1 == [p EXCEPT !.keys[k_prime_index] = ls.keys[ls.num_keys - 1]]
         ls1 == [ls EXCEPT
                   !.num_keys = ls.num_keys - 1,
                   !.keys = Slice(ls.keys, 0, ls.num_keys - 2),
                   !.file_offsets = IF ls.is_leaf
                                    THEN Slice(ls.file_offsets, 0, ls.num_keys - 2)
                                    ELSE ls.file_offsets]
         h1 == [h EXCEPT ![node] = n1, ![parent] = p1, ![left_sibling] = ls1]
     IN Ev([T EXCEPT !.nodes = IF n.is_leaf THEN h1
                               ELSE SetParents(h1, {n1.children[0]}, node)],
           IF n.is_leaf THEN "borrow_left_leaf" ELSE "borrow_left_internal")
  ELSE IF hasRight /\ CanLend(h[right_sibling]) THEN
     \* borrow from the right sibling
     LET rs == h[right_sibling]
         k_prime_index == node_index_in_parent
         n1 == IF n.is_leaf
               THEN [n EXCEPT
                       !.keys = InsertAt(n.keys, n.num_keys, n.num_keys, rs.keys[0]),
                       !.file_offsets = InsertAt(n.file_offsets, n.num_keys, n.num_keys,
                                                 rs.file_offsets[0]),
                       !.num_keys = n.num_keys + 1]
               ELSE [n EXCEPT
                       !.keys = InsertAt(n.keys, n.num_keys, n.num_keys, p.keys[k_prime_index]),
                       !.children[n.num_keys + 1] = rs.children[0],
                       !.num_keys = n.num_keys + 1]
         p1 == [p EXCEPT !.keys[k_prime_index] = RightSeparator(n, rs)]
         rs1 == [rs EXCEPT
                   !.num_keys = rs.num_keys - 1,
                   !.keys = RemoveAt(rs.keys, rs.num_keys, 0),
                   !.file_offsets = IF rs.is_leaf
                                    THEN RemoveAt(rs.file_offsets, rs.num_keys, 0)
                                    ELSE rs.file_offsets,
                   !.children = IF rs.is_leaf THEN rs.children
                                ELSE [i \in 0..MAX_KEYS |->
                                        IF i < rs.num_keys THEN rs.children[i + 1]
                                        ELSE IF i = rs.num_keys THEN NULL
                                        ELSE rs.children[i]]]
         h1 == [h EXCEPT ![node] = n1, ![parent] = p1, ![right_sibling] = rs1]
     IN Ev([T EXCEPT !.nodes = IF n.is_leaf THEN h1
                               ELSE SetParents(h1, {rs.children[0]}, node)],
           IF n.is_leaf THEN "borrow_right_leaf" ELSE "borrow_right_internal")
  ELSE IF hasLeft THEN
     merge_nodes(T, left_sibling, node, node_index_in_parent - 1,
                 p.keys[node_index_in_parent - 1])
  ELSE
     merge_nodes(T, node, right_sibling, node_index_in_parent,
                 p.keys[node_index_in_parent])

\* while (index < node->num_keys && node->keys[index] < key) index++
EntrySlot(n, key) ==
  CHOOSE i \in 0..n.num_keys :
     /\ (i = n.num_keys \/ ~(n.keys[i] < key))
     /\ \A j \in 0..(i - 1) : n.keys[j] < key

delete_entry(T, node, key) ==
  LET h == T.nodes
      n == h[node]
      index == EntrySlot(n, key)
  IN
  IF index = n.num_keys \/ n.keys[index] # key THEN T
  ELSE
  LET n1 == [n EXCEPT
               !.keys = RemoveAt(n.keys, n.num_keys, index),
               !.file_offsets = IF n.is_leaf
                                THEN RemoveAt(n.file_offsets, n.num_keys, index)
                                ELSE n.file_offsets,
               !.num_keys = n.num_keys - 1]
      h1 == [h EXCEPT ![node] = n1]
      T1 == [T EXCEPT !.nodes = h1]
  IN
  IF node # T.root /\ n1.num_keys < MIN_KEYS
  THEN handle_underflow(T1, node)
  ELSE IF h1[T.root].num_keys = 0 /\ ~h1[T.root].is_leaf
  THEN LET new_root == h1[T.root].children[0]
           h2 == Unparent(h1, new_root)
       IN Ev([T1 EXCEPT !.root = new_root, !.nodes = free(h2, T.root)], "root_promote")
  ELSE T1

delete_key(T, key) ==
  IF T = NULL_TREE \/ T.root = NULL THEN T
  ELSE
  LET leaf == find_leaf_node(T.nodes, T.root, key) IN
  IF leaf = NULL THEN T
  ELSE IF ~\E i \in 0..(T.nodes[leaf].num_keys - 1) : T.nodes[leaf].keys[i] = key THEN T
  ELSE delete_entry(T, leaf, key)

\* destroy_tree / free_tree_nodes: every node of the tree is freed
destroy_tree(T) == NULL_TREE

(***************************************************************************)
(* Table / row store (database.c).  Program constants of database.h        *)
(***************************************************************************)
MAX_ROW_LEN == 4096
DELETED_MARKER == "#"
VALID_MARKER == " "
NL == "\n"

\* Bytes are one-character strings; a file is the sequence of its bytes
\* (byte offset off is element off + 1).
Digits == <<"0", "1", "2", "3", "4", "5", "6", "7", "8", "9">>
IsDigit(c) == \E d \in 1..10 : Digits[d] = c
DigitVal(c) == (CHOOSE d \in 1..10 : Digits[d] = c) - 1

Min(a, b) == IF a < b THEN a ELSE b

\* the paths the code builds: create_table opens
\* <cwd>/scaffolded_resources/<lowercase name>/<lowercase name>.dat,
\* compact_table works on <name>.tmp and <name>.dat in the working directory
DataPath == "scaffolded_resources/name/name.dat"
CwdDat == "name.dat"
CwdTmp == "name.tmp"
Paths == {DataPath, CwdDat, CwdTmp}

\* file objects; NONE in the directory means no file of that name
FileIds == 1..3
NONE == NULL

\* the result of read_row: NULL, or the column_count strings
NULL_ROW == [found |-> FALSE, row |-> <<>>]
Row(vals) == [found |-> TRUE, row |-> vals]

\* a fault for Sanitize: the replacement loop is left out
SanitizeNothing(v) == SubSeq(v, 1, Min(Len(v), MAX_ROW_LEN - 1))

\* a fault for Sanitize: the deleted marker is not among the replaced bytes
Sanitize_KeepsMarker(v) ==
  LET w == SubSeq(v, 1, Min(Len(v), MAX_ROW_LEN - 1))
  IN [i \in 1..Len(w) |-> IF w[i] \in {"|", NL} THEN "_" ELSE w[i]]

\* strncpy into sanitized_value[MAX_ROW_LEN] and the replacement loop
Sanitize(v) ==
  LET w == SubSeq(v, 1, Min(Len(v), MAX_ROW_LEN - 1))
  IN [i \in 1..Len(w) |-> IF w[i] \in {"|", NL, DELETED_MARKER} THEN "_" ELSE w[i]]

\* the bytes written by the column loop for columns i..column_count
RECURSIVE ColumnBytes(_, _, _)
ColumnBytes(values, i, column_count) ==
  IF i > column_count THEN <<>>
  ELSE Sanitize(values[i]) \o <<IF i = column_count THEN NL ELSE "|">>
       \o ColumnBytes(values, i + 1, column_count)

\* marker, columns and newline of one appended record
RowBytes(values, column_count) == <<VALID_MARKER>> \o ColumnBytes(values, 1, column_count)

\* fgets(buffer, MAX_ROW_LEN, f) with the stream at byte offset off:
\* <<>> stands for NULL (end of file)
FGets(file, off) ==
  IF off >= Len(file) THEN <<>>
  ELSE LET limit == Min(Len(file), off + MAX_ROW_LEN - 1)
           nls == {j \in (off + 1)..limit : file[j] = NL}
           stop == IF nls = {} THEN limit
                   ELSE CHOOSE j \in nls : \A q \in nls : j <= q
       IN SubSeq(file, off + 1, stop)

\* strtok / strtok_r: the maximal runs of bytes that are not delimiters
RECURSIVE Tokens(_, _)
Tokens(sq, delims) ==
  IF sq = <<>> THEN <<>>
  ELSE IF Head(sq) \in delims THEN Tokens(Tail(sq), delims)
  ELSE LET ends == {j \in 1..Len(sq) : sq[j] \in delims}
           n == IF ends = {} THEN Len(sq)
                ELSE (CHOOSE j \in ends : \A q \in ends : j <= q) - 1
       IN <<SubSeq(sq, 1, n)>> \o Tokens(SubSeq(sq, n + 1, Len(sq)), delims)

\* atoi: leading white space, then decimal digits (no sign occurs in the model)
RECURSIVE AtoiDigits(_, _)
AtoiDigits(sq, acc) ==
  IF sq = <<>> \/ ~IsDigit(Head(sq)) THEN acc
  ELSE AtoiDigits(Tail(sq), 10 * acc + DigitVal(Head(sq)))
RECURSIVE atoi(_)
atoi(sq) ==
  IF sq = <<>> THEN 0
  ELSE IF Head(sq) \in {" ", NL} THEN atoi(Tail(sq))
  ELSE AtoiDigits(sq, 0)

\* fputc at byte offset off (the file grows when off is at or past its end)
PutByte(file, off, c) ==
  [i \in 1..(IF off + 1 > Len(file) THEN off + 1 ELSE Len(file)) |->
     IF i = off + 1 THEN c ELSE IF i <= Len(file) THEN file[i] ELSE "0"]

(***************************************************************************)
(* The world a table lives in: W.tb is the Table struct, W.files the       *)
(* content of every file object, W.dir the directory.  Every operation     *)
(* takes the world and the name of the step that fails in this call        *)
(* ("none": no OS-level failure) and gives the new world, the returned     *)
(* value, and locks / unlocks: how often the call locked and unlocked the  *)
(* table's mutex.                                                          *)
(***************************************************************************)
Result(W, ret, locks, unlocks) == [W |-> W, ret |-> ret, locks |-> locks, unlocks |-> unlocks]

DataFile(W) == W.files[W.tb.data_file]

\* a fault for InvalidTable: the check does not look at primary_index
InvalidTable_FileOnly(W) == W.tb.data_file = NULL

\* the argument check at the top of the row operations
InvalidTable(W) == W.tb.data_file = NULL \/ W.tb.primary_index = NULL_TREE

\* a fault for AppendRow: the result of fflush is not looked at
AppendRow_FlushIgnored(W, values, fail) ==
  LET f == DataFile(W)
      bytes == RowBytes(values, W.tb.column_count)
  IN IF fail \in {"seek_end", "tell", "write_marker"}
     THEN [ok |-> FALSE, off |-> Len(f), file |-> f]
     ELSE IF fail = "write_column"
     THEN [ok |-> FALSE, off |-> Len(f), file |-> f \o <<VALID_MARKER>>]
     ELSE [ok |-> TRUE, off |-> Len(f), file |-> IF fail = "flush_lost" THEN f ELSE f \o bytes]

\* fseek(SEEK_END), ftell, fprintf of marker and columns, fflush
\* (shared text of insert_row 586-639 and update_row 864-908):
\* ok, the offset recorded, and the file afterwards
AppendRow(W, values, fail) ==
  LET f == DataFile(W)
      off == Len(f)
      bytes == RowBytes(values, W.tb.column_count)
  IN IF fail \in {"seek_end", "tell", "write_marker"}
     THEN [ok |-> FALSE, off |-> off, file |-> f]
     ELSE IF fail = "write_column"
     THEN [ok |-> FALSE, off |-> off, file |-> f \o <<VALID_MARKER>>]
     ELSE IF fail = "flush_lost"
     THEN [ok |-> FALSE, off |-> off, file |-> f]
     ELSE IF fail = "flush_kept"
     THEN [ok |-> FALSE, off |-> off, file |-> f \o bytes]
     ELSE [ok |-> TRUE, off |-> off, file |-> f \o bytes]

SetFile(W, file) == [W EXCEPT !.files[W.tb.data_file] = file]

\* a fault for insert_row: the primary-key conflict check is left out
insert_row_NoConflictCheck(W, primary_key, values, fail) ==
  IF InvalidTable(W) THEN Result(W, -1, 0, 0)
  ELSE LET a == AppendRow(W, values, fail)
           W1 == SetFile(W, a.file)
       IN IF ~a.ok THEN Result(W1, -1, 1, 1)
          ELSE Result([W1 EXCEPT !.tb.primary_index = insert_key(@, primary_key, a.off)],
                      a.off, 1, 1)

insert_row(W, primary_key, values, fail) ==
  IF InvalidTable(W) THEN Result(W, -1, 0, 0)
  ELSE IF search_key(W.tb.primary_index, primary_key) # -1 THEN Result(W, -1, 1, 1)
  ELSE LET a == AppendRow(W, values, fail)
           W1 == SetFile(W, a.file)
       IN IF ~a.ok THEN Result(W1, -1, 1, 1)
          ELSE Result([W1 EXCEPT !.tb.primary_index = insert_key(@, primary_key, a.off)],
                      a.off, 1, 1)

read_row(W, primary_key, fail) ==
  IF InvalidTable(W) THEN Result(W, NULL_ROW, 0, 0)
  ELSE
  LET file_offset == search_key(W.tb.primary_index, primary_key) IN
  IF file_offset = -1 THEN Result(W, NULL_ROW, 1, 1)
  ELSE IF fail = "seek" THEN Result(W, NULL_ROW, 1, 1)
  ELSE
  LET buffer == FGets(DataFile(W), file_offset) IN
  IF buffer = <<>> \/ fail = "read" THEN Result(W, NULL_ROW, 1, 1)
  ELSE IF buffer[1] = DELETED_MARKER THEN Result(W, NULL_ROW, 1, 1)
  ELSE IF buffer[1] # " " THEN Result(W, NULL_ROW, 1, 1)
  ELSE IF fail = "alloc" THEN Result(W, NULL_ROW, 1, 1)
  ELSE
  LET toks == Tokens(Tail(buffer), {"|", NL})
      col_idx == Min(Len(toks), W.tb.column_count)
  IN IF col_idx # W.tb.column_count THEN Result(W, NULL_ROW, 1, 1)
     ELSE Result(W, Row(SubSeq(toks, 1, col_idx)), 1, 1)

\* fseek to the record, fputc(DELETED_MARKER), fflush
\* (delete_row 780-802, update_row 837-858)
MarkDeleted(W, off, fail) ==
  IF fail \in {"seek", "putc", "flush_lost"} THEN [ok |-> FALSE, W |-> W]
  ELSE LET W1 == SetFile(W, PutByte(DataFile(W), off, DELETED_MARKER))
       IN [ok |-> fail # "flush_kept", W |-> W1]

\* a fault for delete_row: the exit taken when the marker cannot be written
\* returns without pthread_mutex_unlock
delete_row_KeepsLock(W, primary_key, fail) ==
  IF InvalidTable(W) THEN Result(W, -1, 0, 0)
  ELSE
  LET file_offset == search_key(W.tb.primary_index, primary_key) IN
  IF file_offset = -1 THEN Result(W, -1, 1, 1)
  ELSE LET m == MarkDeleted(W, file_offset, fail) IN
       IF ~m.ok THEN Result(m.W, -1, 1, 0)
       ELSE Result([m.W EXCEPT !.tb.primary_index = delete_key(@, primary_key)], 0, 1, 1)

\* a fault for delete_row: the key stays in the index
delete_row_KeepsKey(W, primary_key, fail) ==
  IF InvalidTable(W) THEN Result(W, -1, 0, 0)
  ELSE
  LET file_offset == search_key(W.tb.primary_index, primary_key) IN
  IF file_offset = -1 THEN Result(W, -1, 1, 1)
  ELSE LET m == MarkDeleted(W, file_offset, fail) IN
       IF ~m.ok THEN Result(m.W, -1, 1, 1)
       ELSE Result(m.W, 0, 1, 1)

delete_row(W, primary_key, fail) ==
  IF InvalidTable(W) THEN Result(W, -1, 0, 0)
  ELSE
  LET file_offset == search_key(W.tb.primary_index, primary_key) IN
  IF file_offset = -1 THEN Result(W, -1, 1, 1)
  ELSE LET m == MarkDeleted(W, file_offset, fail) IN
       IF ~m.ok THEN Result(m.W, -1, 1, 1)
       ELSE Result([m.W EXCEPT !.tb.primary_index = delete_key(@, primary_key)], 0, 1, 1)

\* a fault for update_row: the key keeps the offset it had, which is returned
update_row_KeepsOffset(W, primary_key, new_values, fail) ==
  IF InvalidTable(W) THEN Result(W, -1, 0, 0)
  ELSE
  LET old_offset == search_key(W.tb.primary_index, primary_key) IN
  IF old_offset = -1 THEN Result(W, -1, 1, 1)
  ELSE LET m == MarkDeleted(W, old_offset, fail[1]) IN
       IF ~m.ok THEN Result(m.W, -1, 1, 1)
       ELSE LET a == AppendRow(m.W, new_values, fail[2])
                W1 == SetFile(m.W, a.file)
            IN IF ~a.ok THEN Result(W1, -1, 1, 1)
               ELSE Result(W1, old_offset, 1, 1)

\* a fault for update_row: a key that is not in the index is inserted
update_row_Upsert(W, primary_key, new_values, fail) ==
  IF InvalidTable(W) THEN Result(W, -1, 0, 0)
  ELSE
  LET old_offset == search_key(W.tb.primary_index, primary_key) IN
  IF old_offset = -1 THEN insert_row(W, primary_key, new_values, fail[2])
  ELSE LET m == MarkDeleted(W, old_offset, fail[1]) IN
       IF ~m.ok THEN Result(m.W, -1, 1, 1)
       ELSE LET a == AppendRow(m.W, new_values, fail[2])
                W1 == SetFile(m.W, a.file)
            IN IF ~a.ok THEN Result(W1, -1, 1, 1)
               ELSE Result([W1 EXCEPT !.tb.primary_index =
                                insert_key(delete_key(@, primary_key), primary_key, a.off)],
                           a.off, 1, 1)

\* a fault for update_row: the old entry leaves the index before the new row
\* is appended
update_row_IndexFirst(W, primary_key, new_values, fail) ==
  IF InvalidTable(W) THEN Result(W, -1, 0, 0)
  ELSE
  LET old_offset == search_key(W.tb.primary_index, primary_key) IN
  IF old_offset = -1 THEN Result(W, -1, 1, 1)
  ELSE LET m == MarkDeleted(W, old_offset, fail[1]) IN
       IF ~m.ok THEN Result(m.W, -1, 1, 1)
       ELSE LET W0 == [m.W EXCEPT !.tb.primary_index = delete_key(@, primary_key)]
                a == AppendRow(W0, new_values, fail[2])
                W1 == SetFile(W0, a.file)
            IN IF ~a.ok THEN Result(W1, -1, 1, 1)
               ELSE Result([W1 EXCEPT !.tb.primary_index = insert_key(@, primary_key, a.off)],
                           a.off, 1, 1)

\* fail is <<failure of the marking step, failure of the append step>>
update_row(W, primary_key, new_values, fail) ==
  IF InvalidTable(W) THEN Result(W, -1, 0, 0)
  ELSE
  LET old_offset == search_key(W.tb.primary_index, primary_key) IN
  IF old_offset = -1 THEN Result(W, -1, 1, 1)
  ELSE LET m == MarkDeleted(W, old_offset, fail[1]) IN
       IF ~m.ok THEN Result(m.W, -1, 1, 1)
       ELSE LET a == AppendRow(m.W, new_values, fail[2])
                W1 == SetFile(m.W, a.file)
            IN IF ~a.ok THEN Result(W1, -1, 1, 1)
               ELSE Result([W1 EXCEPT !.tb.primary_index =
                                insert_key(delete_key(@, primary_key), primary_key, a.off)],
                           a.off, 1, 1)

commit_transaction(W, fail) ==
  IF W.tb.data_file = NULL THEN Result(W, 0, 0, 0)
  ELSE Result(W, 0, 1, 1)

\* ftruncate (its failure is only reported), rewind, destroy_tree, initialize_tree
rollback_transaction(W, fail) ==
  IF InvalidTable(W) THEN Result(W, 0, 0, 0)
  ELSE LET W1 == IF fail = "truncate" THEN W ELSE SetFile(W, <<>>)
       IN Result([W1 EXCEPT !.tb.primary_index =
                      IF fail = "index_alloc" THEN NULL_TREE ELSE initialize_tree],
                 0, 1, 1)

\* remove(path): the name goes; the file object goes with it (its content is
\* dropped) when no other name and no open handle of the table refers to it
Unlink(W, path) ==
  LET id == W.dir[path]
      d == [W.dir EXCEPT ![path] = NONE]
  IN IF id = NONE THEN W
     ELSE IF id = W.tb.data_file \/ \E p \in Paths : d[p] = id
     THEN [W EXCEPT !.dir = d]
     ELSE [W EXCEPT !.dir = d, !.files[id] = <<>>]

\* fopen(temp_filename, "wb"): the file of that name truncated, or a new
\* file object (the lowest one that no name and no open handle refers to)
TmpFile(W) ==
  IF W.dir[CwdTmp] # NONE THEN W.dir[CwdTmp]
  ELSE CHOOSE id \in FileIds :
         /\ id # W.tb.data_file /\ \A p \in Paths : W.dir[p] # id
         /\ \A q \in FileIds :
              (q # W.tb.data_file /\ \A p \in Paths : W.dir[p] # q) => id <= q

\* the while loop of compact_table: the lines read with fgets from byte
\* offset off on; out is the temp file so far, idx the new index.
\* stop_at is the number of the valid line at which fputs or ftell fails (0: none)
RECURSIVE CompactLines(_, _, _, _, _)
CompactLines(file, off, out, idx, stop_at) ==
  LET buffer == FGets(file, off) IN
  IF buffer = <<>> THEN [out |-> out, idx |-> idx, failed |-> FALSE]
  ELSE IF buffer[1] # DELETED_MARKER /\ buffer[1] = " "
  THEN LET temp_buffer_for_parse == SubSeq(buffer, 2, Min(Len(buffer), MAX_ROW_LEN))
           first_col == Tokens(temp_buffer_for_parse, {"|"})
       IN IF first_col # <<>>
          THEN IF stop_at = 1 THEN [out |-> out, idx |-> idx, failed |-> TRUE]
               ELSE CompactLines(file, off + Len(buffer), out \o buffer,
                                 insert_key(idx, atoi(first_col[1]), Len(out)),
                                 IF stop_at = 0 THEN 0 ELSE stop_at - 1)
          ELSE CompactLines(file, off + Len(buffer), out, idx, stop_at)
  ELSE CompactLines(file, off + Len(buffer), out, idx, stop_at)

\* compact_table from the lock to table->data_file = NULL (1023-1104):
\* returned tells that the call has returned (and unlocked) on a failure
CompactCopy(W, fail) ==
  IF fail = "tmp_open" THEN [W |-> W, returned |-> TRUE, new_index |-> NULL_TREE]
  ELSE
  LET tmp == TmpFile(W)
      W1 == [W EXCEPT !.dir[CwdTmp] = tmp, !.files[tmp] = <<>>]
      removed == Unlink(W1, CwdTmp)
      c == CompactLines(DataFile(W), 0, <<>>, initialize_tree,
                        IF fail = "tmp_write" THEN 1 ELSE 0)
  IN IF fail = "index_alloc" \/ c.failed \/ fail = "tmp_flush"
     THEN [W |-> removed, returned |-> TRUE, new_index |-> NULL_TREE]
     ELSE [W |-> [W1 EXCEPT !.files[tmp] = c.out, !.tb.data_file = NULL],
           returned |-> FALSE, new_index |-> c.idx]

\* compact_table from remove(old_filename) to the end (1107-1143)
CompactReplace(W, new_index, fail) ==
  IF W.dir[CwdDat] = NONE \/ fail = "remove"
  THEN Unlink(W, CwdTmp)
  ELSE LET W1 == Unlink(W, CwdDat) IN
       IF fail = "rename" THEN W1
       ELSE LET W2 == [W1 EXCEPT !.dir[CwdDat] = W.dir[CwdTmp], !.dir[CwdTmp] = NONE] IN
            IF fail = "reopen" THEN W2
            ELSE [W2 EXCEPT !.tb.data_file = W.dir[CwdTmp], !.tb.primary_index = new_index]

compact_table(W, fail) ==
  IF InvalidTable(W) THEN Result(W, 0, 0, 0)
  ELSE LET c == CompactCopy(W, fail) IN
       IF c.returned THEN Result(c.W, 0, 1, 1)
       ELSE Result(CompactReplace(c.W, c.new_index, fail), 0, 1, 1)

\* db_compact_table(model_name) of an initialized database, for a model whose
\* schema is linked to the table: compact_table is called and 0 is returned
db_compact_table(W, fail) == [compact_table(W, fail) EXCEPT !.ret = 0]

\* a fault for create_table: the index is built from the lines found in the
\* data file
create_table_Reindexed(files, dir, column_count) ==
  LET id == IF dir[DataPath] # NONE THEN dir[DataPath]
            ELSE CHOOSE i \in FileIds : (\A p \in Paths : dir[p] # i)
                                         /\ \A q \in FileIds : (\A p \in Paths : dir[p] # q) => i <= q
      found == IF dir[DataPath] # NONE THEN files[id] ELSE <<>>
  IN [tb |-> [column_count |-> column_count,
              primary_index |-> CompactLines(found, 0, <<>>, initialize_tree, 0).idx,
              data_file |-> id],
      files |-> IF dir[DataPath] # NONE THEN files ELSE [files EXCEPT ![id] = <<>>],
      dir |-> [dir EXCEPT ![DataPath] = id]]

\* create_table: the index, and the data file opened with "a+b" (created when
\* it does not exist, its content kept when it does) and then with "r+b"
create_table(files, dir, column_count) ==
  LET id == IF dir[DataPath] # NONE THEN dir[DataPath]
            ELSE CHOOSE i \in FileIds : (\A p \in Paths : dir[p] # i)
                                         /\ \A q \in FileIds : (\A p \in Paths : dir[p] # q) => i <= q
  IN [tb |-> [column_count |-> column_count, primary_index |-> initialize_tree, data_file |-> id],
      files |-> IF dir[DataPath] # NONE THEN files ELSE [files EXCEPT ![id] = <<>>],
      dir |-> [dir EXCEPT ![DataPath] = id]]

(***************************************************************************)
(* The Database and its table list (database.h:28-32).  A string is the    *)
(* sequence of its characters, a char* is <<>> (NULL) or <<string>>; an    *)
(* upper-case letter is its lower-case letter plus UpperCase.              *)
(***************************************************************************)
MAX_TABLES == 100
MAX_COLUMNS == 100

UpperCase == 1000

NULL_STR == <<>>

Str(s) == <<s>>

strlen(p) == Len(p[1])

\* strcmp(a, b) == 0
strcmp0(a, b) == a = b

tolower(c) == IF c > UpperCase THEN c - UpperCase ELSE c

\* the loop over lowercase_name[i]
lowercase(s) == [i \in 1..Len(s) |-> tolower(s[i])]

\* create_database(): table_count = 0 and every slot NULL
create_database == [table_count |-> 0, tables |-> [i \in 0..(MAX_TABLES - 1) |-> NULL_STR]]

\* a fault for name_exists: the duplicate loop never matches
name_exists_Never(D, table_name) == FALSE

\* the duplicate loop: tables[i] && strcmp(tables[i]->name, table_name) == 0
name_exists(D, table_name) ==
  \E i \in 0..(D.table_count - 1) :
     D.tables[i] # NULL_STR /\ strcmp0(D.tables[i][1], table_name[1])

\* the points at which the C library or the system can fail a call
CreateFails == {"none", "table", "name", "columns", "column", "index", "path", "fopen", "reopen", "mutex"}

\* columns: given is the char** being non-NULL, empty_at the first index
\* (from 1) of a NULL or empty column name, 0 when every name is non-empty
bad_column(columns, column_count) == columns.empty_at \in 1..column_count

\* create_table(db, table_name, columns, column_count): the Database after the
\* call, the returned pointer (NULL_STR, or the registered name) and the data
\* files on disk
db_create_table(D, disk, table_name, columns, column_count, fail) ==
  LET no == [db |-> D, ret |-> NULL_STR, disk |-> disk] IN
  IF D.table_count >= MAX_TABLES THEN no
  ELSE IF table_name = NULL_STR \/ strlen(table_name) = 0 THEN no
  ELSE IF ~columns.given \/ column_count <= 0 \/ column_count > MAX_COLUMNS THEN no
  ELSE IF name_exists(D, table_name) THEN no
  ELSE IF fail \in {"table", "name", "columns"} THEN no
  ELSE IF bad_column(columns, column_count) \/ fail = "column" THEN no
  ELSE IF fail \in {"index", "path", "fopen"} THEN no
  ELSE IF fail \in {"reopen", "mutex"} THEN [no EXCEPT !.disk = @ \cup {lowercase(table_name[1])}]
  ELSE [db |-> [table_count |-> D.table_count + 1,
                tables |-> [D.tables EXCEPT ![D.table_count] = table_name]],
        ret |-> table_name,
        disk |-> disk \cup {lowercase(table_name[1])}]

(***************************************************************************)
(* The index as a state machine: one tree, driven by insert_key and        *)
(* delete_key.  insert_key is called for absent keys only (the caller's    *)
(* obligation, b_plus_tree.c:141-149).                                     *)
(***************************************************************************)
VARIABLES tree, shadow, gen, workload, db, world, last, status, ops,
          lock, pc, loc, obs, crashed, faults

\* the index and the Database's table list: no table operation touches them
ivars == <<tree, shadow, gen, workload, db>>
tvars == <<world, last, status, ops>>
hvars == <<lock, pc, loc, obs, crashed, faults>>
vars == <<ivars, tvars, hvars>>

Keys == 1..MaxKey

Stored(k) == k \in Keys /\ shadow[k] # -1

Present == {k \in Keys : shadow[k] # -1}

Deleted == {k \in Keys : gen[k] > 0}

\* the offset handed to insert_key: distinct per key, and distinct from the
\* offsets the key had before it was deleted
OffsetFor(k) == k + 100 * gen[k]

\* Keys offered to insert_key.
\*  "random": any absent key of 1..MaxRandomKey, in any order.
\*  "sweep" : the first key is the middle of 1..MaxKey, then the stored range
\*            grows at either end until the first delete_key; after that
\*            only deleted keys come back.
InsertChoices ==
  IF workload = "random" THEN (1..MaxRandomKey) \ Present
  ELSE IF Present = {} /\ Deleted = {} THEN {(MaxKey + 1) \div 2}
  ELSE {k \in Keys :
          /\ ~Stored(k)
          /\ IF Deleted = {} THEN Stored(k + 1) \/ Stored(k - 1) ELSE gen[k] > 0}

\* Keys offered to delete_key: any stored key; a key is deleted at most
\* MaxGen times, and the sweep workload deletes at most MaxDeletes keys
DeleteChoices ==
  {k \in Keys :
     /\ Stored(k)
     /\ gen[k] < MaxGen
     /\ (workload = "sweep" => (gen[k] > 0 \/ Cardinality(Deleted) < MaxDeletes))}

\* no table: a NULL Table pointer, and no file
NoWorld ==
  [tb |-> [column_count |-> 0, primary_index |-> NULL_TREE, data_file |-> NULL],
   files |-> [id \in FileIds |-> <<>>], dir |-> [p \in Paths |-> NONE]]

\* no thread is modelled: the one caller runs each operation to its end
NoThreads ==
  /\ lock = NULL /\ pc = <<>> /\ loc = <<>> /\ obs = [done |-> FALSE]
  /\ crashed = FALSE /\ faults = 0

\* the table is not used while the index is driven on its own
NoTable ==
  /\ world = NoWorld
  /\ last = [op |-> "none"]
  /\ status = <<>>
  /\ ops = 0
  /\ NoThreads

IndexInit ==
  /\ NoTable
  /\ tree = initialize_tree /\ db = create_database
  /\ shadow = [k \in Keys |-> -1]
  /\ gen = [k \in Keys |-> 0]
  /\ workload \in {"random", "sweep"}

InsertKey(k) ==
  /\ k \in Keys
  /\ ~Stored(k)
  /\ Cardinality(Present) < MaxLive
  /\ tree' = insert_key([tree EXCEPT !.ev = {}], k, OffsetFor(k))
  /\ shadow' = [shadow EXCEPT ![k] = OffsetFor(k)]
  /\ UNCHANGED <<gen, workload, db, tvars, hvars>>

DeleteKey(k) ==
  /\ Stored(k)
  /\ tree' = delete_key([tree EXCEPT !.ev = {}], k)
  /\ shadow' = [shadow EXCEPT ![k] = -1]
  /\ gen' = [gen EXCEPT ![k] = @ + 1]
  /\ UNCHANGED <<workload, db, tvars, hvars>>

IndexNext ==
  \/ \E k \in InsertChoices : InsertKey(k)
  \/ \E k \in DeleteChoices : DeleteKey(k)

IndexSpec == IndexInit /\ [][IndexNext]_vars

(***************************************************************************)
(* One table, driven by one caller: every operation runs from its          *)
(* argument check to its return without interruption.                      *)
(***************************************************************************)
\* number of columns of the table
ColumnCount == 2
\* primary keys are drawn from 1..MaxTableKey
MaxTableKey == 2
\* rows are appended while the data file has fewer than MaxRows lines
MaxRows == 2
\* number of operations called in one behaviour
MaxOps == 5

TableKeys == 1..MaxTableKey

\* the decimal text of a key
RECURSIVE Dec(_)
Dec(k) == IF k < 10 THEN <<Digits[k + 1]>> ELSE Dec(k \div 10) \o <<Digits[(k % 10) + 1]>>

\* column values offered by the caller: plain, holding the delimiter, empty
Values == {<<"a">>, <<"|">>, <<>>}

\* value vectors offered by the caller: the first column is the decimal text
\* of some key (which need not be the key passed along with the vector)
ValueVectors ==
  {v \in [1..ColumnCount -> Values \cup {Dec(k) : k \in TableKeys}] :
     /\ v[1] \in {Dec(k) : k \in TableKeys}
     /\ \A i \in 2..ColumnCount : v[i] \in Values}

\* content of the data file found by create_table: none, or one row left by
\* an earlier run of the program
Preexisting ==
  {<<>>, RowBytes([i \in 1..ColumnCount |-> IF i = 1 THEN Dec(1) ELSE <<"a">>], ColumnCount)}

NumLines(file) == Cardinality({j \in 1..Len(file) : file[j] = NL})

\* room for one more appended row (a table without data file rejects the call)
Room(W) == IF W.tb.data_file = NULL THEN TRUE ELSE NumLines(DataFile(W)) < MaxRows

HasKey(W, k) == search_key(W.tb.primary_index, k) # -1

\* what read_row gives for key k in world W when no read fails
Readable(W, k) == read_row(W, k, "none").ret

\* one more operation is called
Step == ops < MaxOps /\ ops' = ops + 1

Called(op, k, v, r) ==
  [op |-> op, key |-> k, vals |-> v, ret |-> r.ret, locks |-> r.locks, unlocks |-> r.unlocks,
   had |-> HasKey(world, k)]

TableInit ==
  /\ tree = NULL_TREE /\ shadow = <<>> /\ gen = <<>> /\ workload = "table" /\ db = create_database
  /\ \E pre \in Preexisting, cwd_dat \in BOOLEAN :
       world = create_table([id \in FileIds |-> IF id = 1 THEN pre ELSE <<>>],
                            [p \in Paths |-> IF p = DataPath /\ pre # <<>> THEN 1
                                             ELSE IF p = CwdDat /\ cwd_dat THEN 2
                                             ELSE NONE],
                            ColumnCount)
  /\ last = [op |-> "none", key |-> 0, vals |-> <<>>, ret |-> 0, locks |-> 0, unlocks |-> 0,
             had |-> FALSE]
  /\ status = [k \in TableKeys |-> "never"]
  /\ ops = 0
  /\ NoThreads

InsertRow(k, v) ==
  /\ Step
  /\ Room(world)
  /\ LET r == insert_row(world, k, v, "none") IN
       /\ world' = r.W
       /\ last' = Called("insert", k, v, r)
       /\ status' = IF r.ret = -1 THEN status
                    ELSE [status EXCEPT ![k] = IF @ = "never" THEN "inserted" ELSE "reinserted"]
  /\ UNCHANGED <<ivars, hvars>>

ReadRow(k) ==
  /\ Step
  /\ LET r == read_row(world, k, "none") IN
       /\ world' = r.W
       /\ last' = Called("read", k, <<>>, r)
  /\ UNCHANGED <<ivars, status, hvars>>

UpdateRow(k, v) ==
  /\ Step
  /\ Room(world)
  /\ LET r == update_row(world, k, v, <<"none", "none">>) IN
       /\ world' = r.W
       /\ last' = Called("update", k, v, r)
  /\ UNCHANGED <<ivars, status, hvars>>

DeleteRow(k) ==
  /\ Step
  /\ LET r == delete_row(world, k, "none") IN
       /\ world' = r.W
       /\ last' = Called("delete", k, <<>>, r)
       /\ status' = IF r.ret = -1 THEN status ELSE [status EXCEPT ![k] = "deleted"]
  /\ UNCHANGED <<ivars, hvars>>

CommitTransaction ==
  /\ Step
  /\ LET r == commit_transaction(world, "none") IN
       /\ world' = r.W
       /\ last' = Called("commit", 0, <<>>, r)
  /\ UNCHANGED <<ivars, status, hvars>>

RollbackTransaction ==
  /\ Step
  /\ LET r == rollback_transaction(world, "none") IN
       /\ world' = r.W
       /\ last' = Called("rollback", 0, <<>>, r)
  /\ UNCHANGED <<ivars, status, hvars>>

CompactTable ==
  /\ Step
  /\ LET r == compact_table(world, "none") IN
       /\ world' = r.W
       /\ last' = Called("compact", 0, <<>>, r)
  /\ UNCHANGED <<ivars, status, hvars>>

TableNext ==
  \/ \E k \in TableKeys, v \in ValueVectors : InsertRow(k, v)
  \/ \E k \in TableKeys : ReadRow(k)
  \/ \E k \in TableKeys, v \in ValueVectors : UpdateRow(k, v)
  \/ \E k \in TableKeys : DeleteRow(k)
  \/ CommitTransaction
  \/ RollbackTransaction
  \/ CompactTable

TableSpec == TableInit /\ [][TableNext]_vars

(***************************************************************************)
(* Threads calling the operations of one table (the server runs every      *)
(* connection in a thread of its own).  A call is: the argument check,     *)
(* made without the lock; pthread_mutex_lock; the body; and                *)
(* pthread_mutex_unlock on the way out.  compact_table's body is two       *)
(* steps, split where it has set table->data_file to NULL: the argument    *)
(* checks of the other threads read that field without the lock.           *)
(***************************************************************************)
\* number of threads
MaxThreads == 2
\* number of calls made in one behaviour
MaxCalls == 2
\* number of calls in which an OS-level failure happens
MaxFaults == 1

Threads == 1..MaxThreads

\* the row written by the threads
ThreadRow == [i \in 1..ColumnCount |-> IF i = 1 THEN Dec(1) ELSE <<"a">>]

\* the steps of an appended row and of a marker that can fail
AppendFails == {"seek_end", "tell", "write_marker", "write_column", "flush_lost", "flush_kept"}
MarkFails == {"seek", "putc", "flush_lost", "flush_kept"}

\* the failures a call of op can meet: <<f, g>>, where g is the failure of
\* the append step of update_row and f the failure of any other step
FailsOf(op) ==
  CASE op = "insert"   -> {<<f, "none">> : f \in {"none"} \cup AppendFails}
    [] op = "read"     -> {<<f, "none">> : f \in {"none", "seek", "read", "alloc"}}
    [] op = "delete"   -> {<<f, "none">> : f \in {"none"} \cup MarkFails}
    [] op = "update"   -> {<<f, "none">> : f \in {"none"} \cup MarkFails}
                            \cup {<<"none", g>> : g \in AppendFails}
    [] op = "commit"   -> {<<f, "none">> : f \in {"none", "flush"}}
    [] op = "rollback" -> {<<f, "none">> : f \in {"none", "truncate"}}
    [] op = "compact"  -> {<<f, "none">> : f \in {"none", "tmp_open", "index_alloc", "tmp_write",
                                               "tmp_flush", "remove", "rename", "reopen"}}

NoFail == <<"none", "none">>

Requests ==
  {[op |-> c[1], key |-> 1, vals |-> ThreadRow, fail |-> c[2]] :
     c \in UNION {{<<op, f>> : f \in FailsOf(op)} :
                    op \in {"insert", "read", "update", "delete", "commit", "rollback", "compact"}}}

\* the call rq made in world W, run from its argument check to its return
Perform(W, rq) ==
  CASE rq.op = "insert"   -> insert_row(W, rq.key, rq.vals, rq.fail[1])
    [] rq.op = "read"     -> read_row(W, rq.key, rq.fail[1])
    [] rq.op = "update"   -> update_row(W, rq.key, rq.vals, rq.fail)
    [] rq.op = "delete"   -> delete_row(W, rq.key, rq.fail[1])
    [] rq.op = "commit"   -> commit_transaction(W, rq.fail[1])
    [] rq.op = "rollback" -> rollback_transaction(W, rq.fail[1])
    [] rq.op = "compact"  -> compact_table(W, rq.fail[1])

\* what the caller of an operation gets to see of its result
Outcome(rq, r) ==
  IF rq.op = "read" THEN <<"row", r.ret.found, r.ret.row>> ELSE <<"int", r.ret, <<>>>>

Idle == [rq |-> [op |-> "none", key |-> 0, vals |-> <<>>, fail |-> NoFail], unlocks |-> 0, new_index |-> NULL_TREE,
         snap |-> NoWorld, entered |-> FALSE, waited |-> FALSE]

LockInit ==
  /\ tree = NULL_TREE /\ shadow = <<>> /\ gen = <<>> /\ workload = "threads" /\ db = create_database
  /\ \E cwd_dat \in BOOLEAN :
       world = create_table([id \in FileIds |-> <<>>],
                            [p \in Paths |-> IF p = CwdDat /\ cwd_dat THEN 2 ELSE NONE],
                            ColumnCount)
  /\ last = [op |-> "none"] /\ status = <<>> /\ ops = 0
  /\ lock = NULL
  /\ pc = [t \in Threads |-> "idle"]
  /\ loc = [t \in Threads |-> Idle]
  /\ obs = [done |-> FALSE]
  /\ crashed = FALSE
  /\ faults = 0

\* the mutex can be taken
CanLock == lock = NULL

\* thread t calls rq: the argument check either returns at once, or lets
\* the thread go on to pthread_mutex_lock
\* r is the call as it runs now, before the call run at the time the holder
\* of the lock took it
Checked(t, rq, r, before) ==
  IF r.locks = 0
  THEN /\ loc' = loc
       /\ pc' = pc
       /\ obs' = IF lock # NULL
                 THEN [done |-> FALSE, by |-> lock, rq |-> rq, ret |-> Outcome(rq, r),
                       before |-> Outcome(rq, before)]
                 ELSE obs
  ELSE /\ loc' = [loc EXCEPT ![t] = [Idle EXCEPT !.rq = rq, !.waited = lock # NULL]]
       /\ pc' = [pc EXCEPT ![t] = "lock"]
       /\ obs' = obs

Call(t, rq) ==
  /\ ~crashed /\ pc[t] = "idle"
  /\ ops < MaxCalls /\ ops' = ops + 1
  /\ IF rq.fail = NoFail THEN faults' = faults ELSE faults < MaxFaults /\ faults' = faults + 1
  /\ Checked(t, rq, Perform(world, [rq EXCEPT !.fail = NoFail]),
             Perform(IF lock # NULL THEN loc[lock].snap ELSE world, rq))
  /\ UNCHANGED <<ivars, world, last, status, lock, crashed>>

\* pthread_mutex_lock returns
Acquire(t) ==
  /\ ~crashed /\ pc[t] = "lock"
  /\ CanLock
  /\ lock' = t
  /\ pc' = [pc EXCEPT ![t] = "body"]
  /\ loc' = [loc EXCEPT ![t].snap = world, ![t].entered = TRUE]
  /\ UNCHANGED <<ivars, tvars, obs, crashed, faults>>

\* the world after the first step of the body of rq, and whether the body
\* goes on with a second step (compact_table past table->data_file = NULL)
\* (c is the first part of compact_table, r the whole call)
BodyResult(W, rq, c, r) ==
  IF rq.op = "commit"
  THEN \* fflush(table->data_file); fflush(NULL) flushes every stream
       [W |-> W, unlocks |-> 1, more |-> FALSE, new_index |-> NULL_TREE]
  ELSE IF rq.op = "compact" /\ ~c.returned
  THEN [W |-> c.W, unlocks |-> r.unlocks, more |-> TRUE, new_index |-> c.new_index]
  ELSE [W |-> r.W, unlocks |-> r.unlocks, more |-> FALSE, new_index |-> NULL_TREE]

BodyStep(W, rq) == BodyResult(W, rq, CompactCopy(W, rq.fail[1]), Perform(W, rq))

\* the file calls of the body would be handed a NULL stream
BodyFaults(W, rq) == rq.op # "commit" /\ InvalidTable(W)

\* thread t has run the step b of its body, unless the process crashed
BodyDone(t, b) ==
  /\ world' = IF crashed' THEN world ELSE b.W
  /\ loc' = IF crashed' THEN loc
            ELSE [loc EXCEPT ![t].unlocks = b.unlocks, ![t].new_index = b.new_index]
  /\ pc' = IF crashed' THEN pc
           ELSE [pc EXCEPT ![t] = IF b.more THEN "replace" ELSE "exit"]

\* the body of the operation, up to its unlock; for compact_table, up to
\* table->data_file = NULL
Body(t) ==
  /\ ~crashed /\ pc[t] = "body"
  /\ crashed' = BodyFaults(world, loc[t].rq)
  /\ BodyDone(t, BodyStep(world, loc[t].rq))
  /\ UNCHANGED <<ivars, last, status, ops, lock, obs, faults>>

\* compact_table from remove(old_filename) on
Replace(t) ==
  /\ ~crashed /\ pc[t] = "replace"
  /\ world' = CompactReplace(world, loc[t].new_index, loc[t].rq.fail[1])
  /\ loc' = [loc EXCEPT ![t].new_index = NULL_TREE]
  /\ pc' = [pc EXCEPT ![t] = "exit"]
  /\ UNCHANGED <<ivars, last, status, ops, lock, obs, crashed, faults>>

\* the pthread_mutex_unlock of the exit path taken (if it has one), and the return
Exit(t) ==
  /\ ~crashed /\ pc[t] = "exit"
  /\ lock' = IF loc[t].unlocks >= 1 /\ lock = t THEN NULL ELSE lock
  /\ pc' = [pc EXCEPT ![t] = "idle"]
  /\ loc' = [loc EXCEPT ![t] = Idle]
  /\ obs' = IF ~obs.done /\ "by" \in DOMAIN obs /\ obs.by = t
            THEN [obs EXCEPT !.done = TRUE] @@ [after |-> Outcome(obs.rq, Perform(world, obs.rq))]
            ELSE obs
  /\ UNCHANGED <<ivars, tvars, crashed, faults>>

LockNext ==
  \/ \E t \in Threads, rq \in Requests : Call(t, rq)
  \/ \E t \in Threads : Acquire(t)
  \/ \E t \in Threads : Body(t)
  \/ \E t \in Threads : Replace(t)
  \/ \E t \in Threads : Exit(t)

LockSpec == LockInit /\ [][LockNext]_vars

\* the step Body(t) as the scheduler sees it: thread t leaves "body", or the
\* process is terminated (these are the Body(t) steps, and no others)
BodyTaken(t) ==
  /\ ~crashed /\ pc[t] = "body"
  /\ \/ crashed' = TRUE /\ pc' = pc
     \/ crashed' = FALSE /\ pc' = [pc EXCEPT ![t] = "exit"]
     \/ crashed' = FALSE /\ pc' = [pc EXCEPT ![t] = "replace"]

\* the mutex is handed to every thread that keeps asking for it, and a
\* thread that can take a step is scheduled
LockFairness ==
  \A t \in Threads :
     /\ SF_vars(Acquire(t))
     /\ WF_<<pc, crashed>>(BodyTaken(t)) /\ WF_vars(Replace(t)) /\ WF_vars(Exit(t))

FairLockSpec == LockSpec /\ LockFairness

(***************************************************************************)
(* Structure of a tree, as seen from its root                              *)
(***************************************************************************)
\* the nodes reached from node through children[0..num_keys]
RECURSIVE Subtree(_, _, _)
Subtree(h, node, fuel) ==
  IF fuel = 0 \/ ~IsNode(h, node) THEN {}
  ELSE IF h[node].is_leaf THEN {node}
  ELSE {node} \cup UNION {Subtree(h, h[node].children[i], fuel - 1) :
                             i \in 0..h[node].num_keys}

TreeNodes(T) == Subtree(T.nodes, T.root, MaxNodes)

InternalNodes(T) == {n \in TreeNodes(T) : ~T.nodes[n].is_leaf}

Leaves(T) == {n \in TreeNodes(T) : T.nodes[n].is_leaf}

\* the leaves below node, left to right (in-order traversal)
RECURSIVE InOrderLeaves(_, _, _)
RECURSIVE InOrderFrom(_, _, _, _)
InOrderLeaves(h, node, fuel) ==
  IF fuel = 0 \/ ~IsNode(h, node) THEN <<>>
  ELSE IF h[node].is_leaf THEN <<node>>
  ELSE InOrderFrom(h, node, 0, fuel)
InOrderFrom(h, node, i, fuel) ==
  IF i > h[node].num_keys THEN <<>>
  ELSE InOrderLeaves(h, h[node].children[i], fuel - 1) \o InOrderFrom(h, node, i + 1, fuel)

\* the leftmost leaf: children[0] from the root (print_tree, lines 735-740)
RECURSIVE LeftmostLeaf(_, _, _)
LeftmostLeaf(h, node, fuel) ==
  IF fuel = 0 \/ ~IsNode(h, node) THEN NULL
  ELSE IF h[node].is_leaf THEN node
  ELSE LeftmostLeaf(h, h[node].children[0], fuel - 1)

\* the nodes visited by following next from leaf until NULL; a reference to a
\* cell that holds no node ends the walk with that reference recorded
RECURSIVE LeafChain(_, _, _)
LeafChain(h, leaf, fuel) ==
  IF leaf = NULL \/ fuel = 0 THEN <<>>
  ELSE IF ~IsNode(h, leaf) THEN <<leaf>>
  ELSE <<leaf>> \o LeafChain(h, h[leaf].next, fuel - 1)

KeySeq(n) == [i \in 1..n.num_keys |-> n.keys[i - 1]]

\* the keys of a sequence of leaves, concatenated
RECURSIVE KeysOf(_, _)
KeysOf(h, ls) ==
  IF ls = <<>> THEN <<>>
  ELSE (IF IsNode(h, Head(ls)) THEN KeySeq(h[Head(ls)]) ELSE <<>>) \o KeysOf(h, Tail(ls))

Range(sq) == {sq[i] : i \in 1..Len(sq)}

StrictlyAscending(sq) == \A i \in 1..(Len(sq) - 1) : sq[i] < sq[i + 1]

ChainOf(T) == LeafChain(T.nodes, LeftmostLeaf(T.nodes, T.root, MaxNodes), MaxNodes + 1)

(***************************************************************************)
(* Properties of the index                                                 *)
(***************************************************************************)
\* C1: after any sequence of insert_key (absent keys only) and delete_key,
\* search_key(k) is the offset of the latest insert_key(k, .) that no
\* delete_key(k) followed, and -1 for a key never inserted or deleted since.
C1_SearchReturnsLatest ==
  \A k \in Keys : search_key(tree, k) = shadow[k]

\* a key that was deleted and inserted again is stored next to a key that is
\* deleted and a key that was never inserted, in a tree with internal nodes
C1_Witness ==
  /\ ~tree.nodes[tree.root].is_leaf
  /\ \E k \in Keys : gen[k] > 0 /\ Stored(k) /\ search_key(tree, k) = k + 100
  /\ \E k \in Keys : gen[k] > 0 /\ ~Stored(k)
  /\ \E k \in Keys : gen[k] = 0 /\ ~Stored(k)

\* C2: after every insert_key and delete_key every node other than the root
\* holds between MIN_KEYS and MAX_KEYS keys and the root at most MAX_KEYS.
C2_KeyCounts ==
  \A n \in TreeNodes(tree) :
     /\ tree.nodes[n].num_keys <= MAX_KEYS
     /\ n # tree.root => tree.nodes[n].num_keys >= MIN_KEYS

\* a delete has just borrowed or merged below a root that is still internal
C2_Witness ==
  /\ ~tree.nodes[tree.root].is_leaf
  /\ tree.ev \cap {"merge_leaf", "borrow_left_leaf", "borrow_right_leaf",
                   "borrow_left_internal", "borrow_right_internal"} # {}
  /\ \E n \in TreeNodes(tree) : n # tree.root /\ tree.nodes[n].num_keys = MIN_KEYS

\* the child slots in use, children[0..num_keys], are non-null and distinct
LiveChildrenOk(n) ==
  /\ \A i \in 0..n.num_keys : n.children[i] # NULL
  /\ \A i, j \in 0..n.num_keys : i # j => n.children[i] # n.children[j]

\* C3: after every insert_key and delete_key every internal node with k keys
\* has children[0..k] non-null and pairwise distinct, and every child slot
\* above k is NULL.
C3_ExactlyKPlus1Children ==
  \A id \in InternalNodes(tree) :
     /\ LiveChildrenOk(tree.nodes[id])
     /\ \A i \in (tree.nodes[id].num_keys + 1)..MAX_KEYS : tree.nodes[id].children[i] = NULL

\* the part of C3 about the slots in use
C3_LiveChildren ==
  \A id \in InternalNodes(tree) : LiveChildrenOk(tree.nodes[id])

\* C4: after every insert_key and delete_key the walk along next from the
\* leftmost leaf visits every leaf exactly once, in the order of the in-order
\* traversal, and its keys are strictly ascending and are exactly the keys
\* stored.
C4_LeafChain ==
  LET chain == ChainOf(tree)
      ks == KeysOf(tree.nodes, chain)
  IN /\ chain = InOrderLeaves(tree.nodes, tree.root, MaxNodes)
     /\ Range(chain) = Leaves(tree)
     /\ Len(chain) = Cardinality(Leaves(tree))
     /\ StrictlyAscending(ks)
     /\ Range(ks) = Present

\* two leaves have just been merged in a tree that still has three leaves
C4_Witness ==
  /\ "merge_leaf" \in tree.ev
  /\ Cardinality(Leaves(tree)) >= 3
  /\ Len(ChainOf(tree)) >= 3

(***************************************************************************)
(* Claims about the table (TableSpec)                                      *)
(***************************************************************************)
\* C5: insert_row called with a key that is present in the index returns -1,
\* writes nothing to any file (length and bytes unchanged), leaves the index
\* unchanged, and has unlocked the mutex as often as it locked it.
C5_DuplicateInsertRejected ==
  [][(last'.op = "insert" /\ ops' = ops + 1 /\ HasKey(world, last'.key))
       => (last'.ret = -1 /\ world' = world /\ last'.locks = last'.unlocks)]_vars

\* an insert_row of a present key that took the lock and was rejected
C5_Witness ==
  /\ last.op = "insert" /\ last.had /\ last.ret = -1
  /\ last.locks = 1 /\ last.unlocks = 1
  /\ Readable(world, last.key).found

\* C6: in every reachable state read_row gives NULL for a key that was never
\* inserted and for a key whose latest successful insert_row / delete_row was
\* a delete_row; right after the successful re-insert of a deleted key,
\* read_row gives a row.
C6_NotFoundUnlessLive ==
  \A k \in TableKeys :
     /\ status[k] \in {"never", "deleted"} => ~Readable(world, k).found
     /\ (last.op = "insert" /\ last.key = k /\ last.ret # -1 /\ status[k] = "reinserted")
           => Readable(world, k).found

\* what is read back after the vector V has been stored: every value
\* sanitized, or nothing at all when some value is empty
ReadBack(V) ==
  IF \A i \in 1..ColumnCount : V[i] # <<>>
  THEN Row([i \in 1..ColumnCount |-> Sanitize(V[i])])
  ELSE NULL_ROW

DataFileLen(W) ==
  IF W.tb.data_file # NULL THEN Len(DataFile(W)) ELSE Len(W.files[W.dir[DataPath]])

\* C8: compact_table keeps, for every key that read_row gave a row for right
\* before, the same row right after, and does not make the data file longer.
C8_CompactionPreservesRows ==
  [][(last'.op = "compact" /\ ops' = ops + 1)
       => /\ \A k \in TableKeys :
               Readable(world, k).found => Readable(world, k)' = Readable(world, k)
          /\ DataFileLen(world)' <= DataFileLen(world)]_vars

(***************************************************************************)
(* Claims about the lock (LockSpec, FairLockSpec)                          *)
(***************************************************************************)
\* thread t is between pthread_mutex_lock and pthread_mutex_unlock
InCriticalSection(t) == pc[t] \in {"body", "replace", "exit"}

\* C9: at most one thread is between lock and unlock, every step that
\* touches the data file or the index is taken by the thread holding the
\* lock, and what a caller observes is what it would observe with the
\* operations run one at a time: a call that returned while another thread
\* held the lock returned what it would have returned either before or
\* after that thread's operation.
C9_Serialized ==
  /\ \A t, u \in Threads : (InCriticalSection(t) /\ InCriticalSection(u)) => t = u
  /\ \A t \in Threads : InCriticalSection(t) => lock = t
  /\ obs.done => obs.ret \in {obs.before, obs.after}

FindRead(t) ==
  /\ ~crashed /\ pc[t] = "idle"
  /\ lock = NULL
  /\ IF Readable(world, 1).found
     THEN /\ pc' = [pc EXCEPT ![t] = "search"]
          /\ loc' = [loc EXCEPT ![t] = [Idle EXCEPT !.rq.op = "find", !.rq.key = 1]]
     ELSE pc' = pc /\ loc' = loc
  /\ UNCHANGED <<ivars, tvars, lock, obs, crashed, faults>>

\* search_key(table->primary_index, primary_key) is entered with the tree
\* that table->primary_index refers to at this moment; no lock is taken
FindSearch(t) ==
  /\ ~crashed /\ pc[t] = "search"
  /\ pc' = [pc EXCEPT ![t] = "traverse"]
  /\ loc' = [loc EXCEPT ![t].new_index = world.tb.primary_index]
  /\ UNCHANGED <<ivars, tvars, lock, obs, crashed, faults>>

\* search_key returns. A tree that was changed or freed while it was
\* traversed has been read in a data race (or after free): the process goes
\* on or is terminated
FindReturn(t) ==
  /\ ~crashed /\ pc[t] = "traverse"
  /\ IF world.tb.primary_index = loc[t].new_index
     THEN crashed' = FALSE
     ELSE crashed' \in BOOLEAN
  /\ pc' = IF crashed' THEN pc ELSE [pc EXCEPT ![t] = "idle"]
  /\ loc' = IF crashed' THEN loc ELSE [loc EXCEPT ![t] = Idle]
  /\ UNCHANGED <<ivars, tvars, lock, obs, faults>>

OrmNext ==
  \/ LockNext
  \/ \E t \in Threads : FindRead(t)
  \/ \E t \in Threads : FindSearch(t)
  \/ \E t \in Threads : FindReturn(t)

OrmSpec == LockInit /\ [][OrmNext]_vars

\* thread t is inside search_key on the table's index
InSearch(t) == pc[t] \in {"search", "traverse"}

\* C11: a thread that is inside search_key on the table's index holds the
\* table's lock, and no step changes or frees the index while a thread is
\* traversing it.
C11_IndexUnderLock ==
  /\ [](\A t \in Threads : InSearch(t) => lock = t)
  /\ [][(\E t \in Threads : pc[t] = "traverse")
          => world'.tb.primary_index = world.tb.primary_index]_vars

\* C12: a call made while another thread is executing compact_table goes on
\* to wait for the lock: it does not return at once from its argument check.
C12_BlocksDuringCompaction ==
  [][(ops' = ops + 1 /\ \E u \in Threads : InCriticalSection(u) /\ loc[u].rq.op = "compact")
       => \E t \in Threads : pc[t] = "idle" /\ pc'[t] = "lock"]_vars

(***************************************************************************)
(* The table operations with OS-level failures (FaultSpec)                 *)
(***************************************************************************)
\* number of operations called in one behaviour of FaultSpec
MaxFaultOps == 3

\* the failures a call of op can meet, initialize_tree's in rollback_transaction included
FaultsOf(op) ==
  FailsOf(op) \cup (IF op = "rollback" THEN {<<"index_alloc", "none">>} ELSE {})

\* what the calls made so far have told the caller:
\* fresh: the data file was empty when the table was created;
\* clean: no call has failed and left bytes in the file all the same;
\* first: no insert_row has succeeded yet;
\* high: the highest offset returned by insert_row / update_row since the
\*       last compact_table or rollback_transaction (-1: none)
History(l, W) ==
  IF "high" \in DOMAIN l THEN [fresh |-> l.fresh, clean |-> l.clean, first |-> l.first, high |-> l.high]
  ELSE [fresh |-> Len(W.files[W.dir[DataPath]]) = 0, clean |-> TRUE, first |-> TRUE, high |-> -1]

Appends(op, r) == op \in {"insert", "update"} /\ r.ret # -1

\* the call has run with result r: the world it leaves, and what is known of it
Served(op, k, v, f, r) ==
  /\ ops < MaxFaultOps /\ ops' = ops + 1
  /\ world' = r.W
  /\ last' = [op |-> op, key |-> k, vals |-> v, ret |-> r.ret, locks |-> r.locks,
              unlocks |-> r.unlocks, had |-> HasKey(world, k), fail |-> f,
              fresh |-> History(last, world).fresh,
              clean |-> History(last, world).clean
                          /\ ~(op \in {"insert", "update", "delete"} /\ r.ret = -1
                                 /\ r.W.files # world.files),
              first |-> History(last, world).first /\ ~(op = "insert" /\ r.ret # -1),
              high |-> IF op \in {"compact", "rollback"} THEN -1
                       ELSE IF Appends(op, r) /\ r.ret > History(last, world).high THEN r.ret
                       ELSE History(last, world).high]
  /\ status' = IF op = "insert" /\ r.ret # -1
               THEN [status EXCEPT ![k] = IF @ = "never" THEN "inserted" ELSE "reinserted"]
               ELSE IF op = "delete" /\ r.ret # -1 THEN [status EXCEPT ![k] = "deleted"]
               ELSE status
  /\ UNCHANGED <<ivars, hvars>>

FaultInsert(k, v, f) == Room(world) /\ Served("insert", k, v, f, insert_row(world, k, v, f[1]))

FaultRead(k, f) == Served("read", k, <<>>, f, read_row(world, k, f[1]))

FaultUpdate(k, v, f) == Room(world) /\ Served("update", k, v, f, update_row(world, k, v, f))

FaultDelete(k, f) == Served("delete", k, <<>>, f, delete_row(world, k, f[1]))

FaultCommit(f) == Served("commit", 0, <<>>, f, commit_transaction(world, f[1]))

FaultRollback(f) == Served("rollback", 0, <<>>, f, rollback_transaction(world, f[1]))

FaultCompact(f) == Served("compact", 0, <<>>, f, db_compact_table(world, f[1]))

FaultNext ==
  \/ \E k \in TableKeys, v \in ValueVectors, f \in FaultsOf("insert") : FaultInsert(k, v, f)
  \/ \E k \in TableKeys, f \in FaultsOf("read") : FaultRead(k, f)
  \/ \E k \in TableKeys, v \in ValueVectors, f \in FaultsOf("update") : FaultUpdate(k, v, f)
  \/ \E k \in TableKeys, f \in FaultsOf("delete") : FaultDelete(k, f)
  \/ \E f \in FaultsOf("commit") : FaultCommit(f)
  \/ \E f \in FaultsOf("rollback") : FaultRollback(f)
  \/ \E f \in FaultsOf("compact") : FaultCompact(f)

FaultSpec == TableInit /\ [][FaultNext]_vars

\* the step is a call of op on a table that passes the argument check
Calls(op) == ops' = ops + 1 /\ last'.op = op /\ ~InvalidTable(world)

\* C13: an insert_row of an absent key that succeeds has appended the whole
\* line (marker, columns, newline) and indexed the key at the offset where
\* the line starts, which is the offset returned; one in which the seek, the
\* tell, a write or the flush fails returns -1 and leaves the index as it
\* was, so that read_row still finds nothing for the key.
C13_IndexedAfterFlush ==
  [][(Calls("insert") /\ ~HasKey(world, last'.key))
       => IF last'.fail = NoFail
          THEN /\ last'.ret = Len(DataFile(world))
               /\ DataFile(world') = DataFile(world) \o RowBytes(last'.vals, ColumnCount)
               /\ search_key(world'.tb.primary_index, last'.key) = last'.ret
          ELSE /\ last'.ret = -1
               /\ world'.tb.primary_index = world.tb.primary_index
               /\ ~Readable(world', last'.key).found]_vars

\* an insert_row whose flush failed after the line had reached the file:
\* the line is there, the key is not in the index
C13_Witness ==
  /\ last.op = "insert" /\ last.fail = <<"flush_kept", "none">> /\ ~last.had /\ last.ret = -1
  /\ Len(DataFile(world)) > 0
  /\ ~HasKey(world, last.key)

(***************************************************************************)
(* read_row on a data file of any content (ReadSpec)                       *)
(***************************************************************************)
\* the offsets the index can hold for the key are 0..MaxReadOffset
MaxReadOffset == 8
\* a file holds up to MaxReadLines lines
MaxReadLines == 2

\* lines as they can stand in a data file: a status byte (valid, deleted, or
\* something else), fields and delimiters, and a newline or none
FileLines ==
  {<<m>> \o b \o e :
     m \in {VALID_MARKER, DELETED_MARKER, "a"},
     b \in {<<>>, <<"a">>, <<"a", "|", "a">>, <<"a", "|", "a", "|", "a">>,
            <<"a", "|">>, <<"|", "a">>},
     e \in {<<NL>>, <<>>}}

RECURSIVE FileContents(_)
FileContents(n) ==
  IF n = 0 THEN {<<>>}
  ELSE FileContents(n - 1) \cup {f \o l : f \in FileContents(n - 1), l \in FileLines}

\* a table with ColumnCount columns over a file of some content, whose index
\* holds key 1 at some offset
ReadInit ==
  /\ tree = NULL_TREE /\ shadow = <<>> /\ gen = <<>> /\ workload = "read" /\ db = create_database
  /\ \E content \in FileContents(MaxReadLines), off \in 0..MaxReadOffset :
       world = [tb |-> [column_count |-> ColumnCount, data_file |-> 1,
                        primary_index |-> insert_key(initialize_tree, 1, off)],
                files |-> [id \in FileIds |-> IF id = 1 THEN content ELSE <<>>],
                dir |-> [p \in Paths |-> IF p = DataPath THEN 1 ELSE NONE]]
  /\ last = [op |-> "none", key |-> 0, vals |-> <<>>, ret |-> 0, locks |-> 0, unlocks |-> 0,
             had |-> FALSE]
  /\ status = [k \in TableKeys |-> "never"]
  /\ ops = 0
  /\ NoThreads

\* read_row(table, 1), once
ReadOnce(f) ==
  /\ ops = 0 /\ ops' = 1
  /\ world' = world
  /\ last' = Called("read", 1, <<>>, read_row(world, 1, f))
  /\ UNCHANGED <<ivars, status, hvars>>

ReadNext == \E f \in FailsOf("read") : ReadOnce(f[1])

ReadSpec == ReadInit /\ [][ReadNext]_vars

\* the line that starts at the offset the index holds for key k
\* (<<>>: the offset is at or past the end of the file)
LineOf(W, k) == FGets(DataFile(W), search_key(W.tb.primary_index, k))

\* the columns of a line: the fields between its status byte and its end
ColumnsOf(line) == Tokens(Tail(line), {"|", NL})

\* C14: read_row gives NULL when the indexed offset is at or past the end of
\* the file, when the byte there is neither ' ' nor '#', and when the line
\* there has a number of columns other than column_count; a result that is
\* not NULL has exactly column_count strings and comes from a line whose
\* first byte is ' '.
C14_NoPartialRows ==
  last.op = "read" =>
    LET line == LineOf(world, last.key) IN
    /\ (\/ line = <<>>
        \/ line[1] \notin {VALID_MARKER, DELETED_MARKER}
        \/ Len(ColumnsOf(line)) # ColumnCount) => ~last.ret.found
    /\ last.ret.found => /\ Len(last.ret.row) = ColumnCount
                         /\ \A i \in 1..ColumnCount : last.ret.row[i] # <<>>
                         /\ line[1] = VALID_MARKER

\* the part of C14 that holds: no row from an offset past the end, from a
\* line with another status byte, or from a line with too few columns
C14_NoShortRows ==
  last.op = "read" =>
    LET line == LineOf(world, last.key) IN
    /\ (\/ line = <<>>
        \/ line[1] \notin {VALID_MARKER, DELETED_MARKER}
        \/ Len(ColumnsOf(line)) < ColumnCount) => ~last.ret.found
    /\ last.ret.found => /\ Len(last.ret.row) = ColumnCount
                         /\ \A i \in 1..ColumnCount : last.ret.row[i] # <<>>
                         /\ line[1] = VALID_MARKER

(***************************************************************************)
(* Offsets (FaultSpec)                                                     *)
(***************************************************************************)
\* the step is an insert_row or update_row that succeeds
Appended == ops' = ops + 1 /\ last'.op \in {"insert", "update"} /\ last'.ret # -1

\* an offset returned is above every offset returned since the last
\* compact_table / rollback_transaction, and update_row's is above the one
\* the key had
OffsetsGrow ==
  Appended => /\ last'.ret > History(last, world).high
              /\ last'.op = "update"
                   => last'.ret > search_key(world.tb.primary_index, last'.key)

SameButByte(f, g, off) ==
  /\ Len(g) = Len(f)
  /\ \A j \in 1..Len(f) : j # off + 1 => g[j] = f[j]

\* nothing but the content of the data file differs between V and W
SameButDataFile(V, W) ==
  /\ W.dir = V.dir
  /\ W.tb.data_file = V.tb.data_file /\ W.tb.column_count = V.tb.column_count
  /\ \A id \in FileIds : id # V.tb.data_file => W.files[id] = V.files[id]

\* C16: a delete_row of a key that is in the index, with no OS-level failure,
\* returns 0; afterwards the status byte at the offset the key had is '#',
\* the data file has the length it had and no other byte of it has changed;
\* the key is no longer in the index and every other key has the offset it
\* had; an insert_row of the key made next succeeds and appends a new line
\* to the file, the deleted line staying where it is.
C16_DeleteMarksOneByte ==
  [][(Calls("delete") /\ last'.had /\ last'.fail = NoFail)
       => LET k == last'.key
              off == search_key(world.tb.primary_index, k)
              f == DataFile(world)
              g == DataFile(world')
          IN /\ last'.ret = 0
             /\ off < Len(f)
             /\ SameButByte(f, g, off) /\ g[off + 1] = DELETED_MARKER
             /\ SameButDataFile(world, world')
             /\ search_key(world'.tb.primary_index, k) = -1
             /\ \A j \in TableKeys \ {k} :
                  search_key(world'.tb.primary_index, j) = search_key(world.tb.primary_index, j)
             /\ \A v \in ValueVectors :
                  /\ insert_row(world', k, v, "none").ret = Len(g)
                  /\ DataFile(insert_row(world', k, v, "none").W) = g \o RowBytes(v, ColumnCount)]_vars

\* C17: update_row and delete_row of a key that is not in the index return
\* -1 and leave every file and the index as they were; no update_row,
\* whatever its outcome, changes which keys are in the index, and one that
\* succeeds leaves its key at the offset returned and every other key at the
\* offset it had.
C17_AbsentKeyRejected ==
  [][/\ (ops' = ops + 1 /\ last'.op \in {"update", "delete"} /\ ~last'.had)
          => (last'.ret = -1 /\ world' = world)
     /\ (ops' = ops + 1 /\ last'.op = "update")
          => /\ \A j \in TableKeys : HasKey(world', j) = HasKey(world, j)
             /\ \A j \in TableKeys \ {last'.key} :
                  search_key(world'.tb.primary_index, j) = search_key(world.tb.primary_index, j)
             /\ last'.ret # -1 => search_key(world'.tb.primary_index, last'.key) = last'.ret]_vars

\* an update_row of a key that is not in the index has been rejected on a
\* table that holds another key, whose text is the first column passed
C17_Witness ==
  /\ last.op = "update" /\ ~last.had /\ last.ret = -1
  /\ \E j \in TableKeys : j # last.key /\ HasKey(world, j) /\ last.vals[1] = Dec(j)
  /\ ~HasKey(world, last.key)

(***************************************************************************)
(* compact_table and rollback_transaction (FaultSpec)                      *)
(***************************************************************************)
\* the step is a compact_table that has run to its end: it started on a
\* table that passes the argument check, no step of it failed, and it has
\* put a file in the place of the old one
Compacted ==
  /\ Calls("compact") /\ last'.fail = NoFail
  /\ world'.tb.data_file # NULL

\* C18: when compact_table has run to its end, the file it has replaced is
\* the one create_table opened for the table (the compacted file now goes by
\* that name), the table holds an open handle on it, the index is the one
\* built from the compacted file, and the table takes the row operations.
C18_ReplacesTheTableFile ==
  [][Compacted
       => /\ world'.dir[DataPath] = world'.tb.data_file
          /\ world'.tb.data_file # world.tb.data_file
          /\ world'.tb.primary_index =
               CompactLines(DataFile(world), 0, <<>>, initialize_tree, 0).idx
          /\ ~InvalidTable(world')]_vars

\* the rest of C18: the handle and the index after a compact_table that has
\* run to its end
C18_HandleAndIndex ==
  [][Compacted
       => /\ world'.tb.data_file # world.tb.data_file
          /\ DataFile(world') = CompactLines(DataFile(world), 0, <<>>, initialize_tree, 0).out
          /\ world'.tb.primary_index =
               CompactLines(DataFile(world), 0, <<>>, initialize_tree, 0).idx
          /\ ~InvalidTable(world')]_vars

\* the table in world W is wiped: its data file is empty, its index is an
\* empty tree, no key is found, and an insert_row of any key with any values
\* succeeds and returns offset 0
Wiped(W) ==
  /\ W.tb.data_file # NULL
  /\ Len(DataFile(W)) = 0
  /\ W.tb.primary_index = initialize_tree
  /\ \A k \in TableKeys : ~Readable(W, k).found
  /\ \A k \in TableKeys, v \in ValueVectors : insert_row(W, k, v, "none").ret = 0

\* C19: after rollback_transaction, whatever state the table was in, the
\* data file has length 0, the index is an empty tree, read_row finds no key,
\* and insert_row of any key succeeds, the first one returning offset 0.
C19_RollbackWipes ==
  [][(ops' = ops + 1 /\ last'.op = "rollback") => Wiped(world')]_vars

\* the part of C19 that holds: a rollback_transaction on a table that passes
\* the argument check, in which neither ftruncate nor initialize_tree fails
C19_RollbackWipesUnlessFailed ==
  [][(Calls("rollback") /\ last'.fail = NoFail) => Wiped(world')]_vars

(***************************************************************************)
(* What the caller is told (FaultSpec)                                     *)
(***************************************************************************)
\* the step is a call that has done what it is for: the row is in the file
\* and indexed at the offset returned (insert_row, update_row), the record
\* the index held for the key carries the deleted marker (delete_row), the
\* table has a new data file (compact_table)
Completes ==
  \/ /\ last'.op \in {"insert", "update"}
     /\ ~InvalidTable(world')
     /\ search_key(world'.tb.primary_index, last'.key) # -1
     /\ search_key(world'.tb.primary_index, last'.key) = Len(DataFile(world')) - Len(RowBytes(last'.vals, ColumnCount))
     /\ FGets(DataFile(world'), search_key(world'.tb.primary_index, last'.key)) = RowBytes(last'.vals, ColumnCount)
  \/ /\ last'.op = "delete"
     /\ ~InvalidTable(world)
     /\ search_key(world.tb.primary_index, last'.key) # -1
     /\ DataFile(world')[search_key(world.tb.primary_index, last'.key) + 1] = DELETED_MARKER
  \/ /\ last'.op = "compact"
     /\ world'.tb.data_file \notin {NULL, world.tb.data_file}

\* C21: insert_row, update_row and delete_row that do not complete return
\* -1, a read_row that gives no row returns NULL, and db_compact_table
\* returns -1, not 0, when the compaction does not complete.
C21_FailuresReported ==
  [][(ops' = ops + 1 /\ last'.op \in {"insert", "update", "delete", "compact"} /\ ~Completes)
       => last'.ret = -1]_vars

\* the part of C21 that holds: the row operations
C21_RowFailuresReported ==
  [][(ops' = ops + 1 /\ last'.op \in {"insert", "update", "delete"} /\ ~Completes)
       => last'.ret = -1]_vars

\* C22: between create_table and the table's destruction, whenever the
\* table lock is free the table holds an open file handle, on every exit
\* path of every operation, the failure paths of compact_table included.
C22_HandleKept == lock = NULL => world.tb.data_file # NULL

(***************************************************************************)
(* The bytes written (WriteSpec): the operations of FaultSpec on one key,  *)
(* with values that hold each of the reserved bytes.                       *)
(***************************************************************************)
WriteValues == {<<"a">>, <<"|">>, <<DELETED_MARKER>>, <<NL>>, <<>>, <<"a", DELETED_MARKER, "a">>}

WriteVectors ==
  {v \in [1..ColumnCount -> WriteValues \cup {Dec(1)}] :
     v[1] \in {Dec(1), <<DELETED_MARKER>>} /\ \A i \in 2..ColumnCount : v[i] \in WriteValues}

WriteNext ==
  \/ \E v \in WriteVectors, f \in FaultsOf("insert") : FaultInsert(1, v, f)
  \/ \E f \in FaultsOf("read") : FaultRead(1, f)
  \/ \E v \in WriteVectors, f \in FaultsOf("update") : FaultUpdate(1, v, f)
  \/ \E f \in FaultsOf("delete") : FaultDelete(1, f)
  \/ \E f \in FaultsOf("commit") : FaultCommit(f)
  \/ \E f \in FaultsOf("rollback") : FaultRollback(f)
  \/ \E f \in FaultsOf("compact") : FaultCompact(f)

WriteSpec == TableInit /\ [][WriteNext]_vars

\* the caller's value with each reserved byte replaced by '_'
Replaced(v) == [i \in 1..Len(v) |-> IF v[i] \in {"|", NL, "#"} THEN "_" ELSE v[i]]

\* the values from the i-th on, joined by '|' and ended by a newline
RECURSIVE Joined(_, _)
Joined(vals, i) ==
  Replaced(vals[i]) \o (IF i = Len(vals) THEN <<NL>> ELSE <<"|">> \o Joined(vals, i + 1))

\* the record written by the step is one line: ' ', the values, newline
OneLineAppended ==
  Appended => SubSeq(DataFile(world'), last'.ret + 1, Len(DataFile(world')))
                = <<" ">> \o Joined(last'.vals, 1)

\* the first byte of the line that byte j of f lies in
LineStart(f, j) == CHOOSE i \in 1..j : /\ (i = 1 \/ f[i - 1] = NL)
                                       /\ \A q \in (i + 1)..j : f[q - 1] # NL

\* '#' is the first byte of a line wherever it occurs in f, and every line
\* of f holds column_count - 1 delimiters
Framed(f, column_count) ==
  /\ \A j \in 1..Len(f) : f[j] = "#" => LineStart(f, j) = j
  /\ \A j \in 1..Len(f) :
       (f[j] = NL \/ j = Len(f))
         => Cardinality({i \in LineStart(f, j)..j : f[i] = "|"}) = column_count - 1

Disabled(W) == W.tb.data_file # NULL /\ W.tb.primary_index = NULL_TREE

\* C24: once the index could not be re-created in rollback_transaction,
\* every later insert_row, update_row, delete_row, read_row, compact_table
\* and rollback_transaction returns its failure value (or returns without
\* effect) at the argument check: it takes no lock, does not look into the
\* index, and leaves the data file and everything else as it was.
C24_DisabledAfterFailedRollback ==
  [][(ops' = ops + 1 /\ Disabled(world)
        /\ last'.op \in {"insert", "update", "delete", "read", "compact", "rollback"})
       => /\ world' = world
          /\ last'.locks = 0
          /\ last'.op \in {"insert", "update", "delete"} => last'.ret = -1
          /\ last'.op = "read" => last'.ret = NULL_ROW]_vars

\* a rollback_transaction has lost the index, and an insert_row called
\* after it has been turned away at the argument check
C24_Witness ==
  /\ Disabled(world)
  /\ last.op = "insert" /\ last.ret = -1 /\ last.locks = 0 /\ last.fail = NoFail
  /\ ops = 3

(***************************************************************************)
(* Splits (IndexSpec)                                                      *)
(***************************************************************************)
\* the key the insert_key of this step was called with
InsertedKey == CHOOSE k \in Keys : shadow[k] = -1 /\ shadow'[k] # -1

\* the step is an insert_key whose target leaf held MAX_KEYS keys
LeafSplits ==
  /\ \E k \in Keys : shadow[k] = -1 /\ shadow'[k] # -1
  /\ "leaf_split" \in tree'.ev

\* the MAX_KEYS + 1 keys of the leaf and the new key, in ascending order
MergedKeys(n, key) == InsertAt(n.keys, n.num_keys, LeafSlot(n, key), key)

\* after the split of leaf: the leaf keeps the first keep of the merged keys
\* and the new leaf, linked in right after it, holds the others
SplitAs(leaf, keep) ==
  LET old == tree.nodes[leaf]
      n == tree'.nodes[leaf]
      all == MergedKeys(old, InsertedKey)
  IN /\ n.num_keys = keep
     /\ \A i \in 0..(keep - 1) : n.keys[i] = all[i]
     /\ n.next # NULL /\ n.next # old.next /\ IsNode(tree'.nodes, n.next)
     /\ LET r == tree'.nodes[n.next]
        IN /\ r.is_leaf /\ r.next = old.next
           /\ r.num_keys = MAX_KEYS + 1 - keep
           /\ \A i \in 0..(r.num_keys - 1) : r.keys[i] = all[keep + i]
           /\ \E q \in InternalNodes(tree') :
                \E i \in 0..(tree'.nodes[q].num_keys - 1) :
                   tree'.nodes[q].keys[i] = r.keys[0]

\* C25: when insert_key targets a leaf that holds MAX_KEYS keys, the leaf
\* keeps the first ceil((MAX_KEYS+1)/2) = 3 of the MAX_KEYS + 1 sorted
\* entries and the new right leaf receives the other 2; the new leaf follows
\* the original in the leaf chain and its first key is a separator.
C25_LeafSplitKeepsThree ==
  [][LeafSplits
       => SplitAs(find_leaf_node(tree.nodes, tree.root, InsertedKey), 3)]_vars

\* what the split does: the leaf keeps (MAX_KEYS+1) / 2 = 2 entries, the
\* new leaf receives 3
C25_LeafSplitKeepsTwo ==
  [][LeafSplits
       => SplitAs(find_leaf_node(tree.nodes, tree.root, InsertedKey), (MAX_KEYS + 1) \div 2)]_vars

\* the internal nodes that the insert_key of this step has split
SplitInternals ==
  {p \in InternalNodes(tree) :
     /\ "internal_split" \in tree'.ev
     /\ tree.nodes[p].num_keys = MAX_KEYS
     /\ IsNode(tree'.nodes, p) /\ tree'.nodes[p].num_keys < MAX_KEYS}

\* the children in use of node n
LiveChildren(n) == {n.children[i] : i \in 0..n.num_keys}

\* the children in use of node n, in order
ChildSeq(n) == [i \in 1..(n.num_keys + 1) |-> n.children[i - 1]]

\* node p, full before the step, has been split around the middle key into
\* itself and the new node q
SplitAround(p, q) ==
  LET old == tree.nodes[p]
      l == tree'.nodes[p]
      r == tree'.nodes[q]
      g == tree'.nodes[l.parent]
      all == KeySeq(l) \o <<g.keys[NodeIndexInParent(g, p)]>> \o KeySeq(r)
  IN /\ ~r.is_leaf /\ r.parent = l.parent
     /\ g.children[NodeIndexInParent(g, p) + 1] = q
     /\ l.num_keys = MAX_KEYS \div 2 /\ r.num_keys = MAX_KEYS - MAX_KEYS \div 2
     /\ Len(all) = MAX_KEYS + 1 /\ StrictlyAscending(all)
     /\ Range(KeySeq(old)) \subseteq Range(all)
     /\ \E j \in 1..(MAX_KEYS + 2) :
           /\ ChildSeq(l) \o ChildSeq(r)
                = SubSeq(ChildSeq(old), 1, j - 1) \o <<(ChildSeq(l) \o ChildSeq(r))[j]>>
                    \o SubSeq(ChildSeq(old), j, MAX_KEYS + 1)
           /\ (ChildSeq(l) \o ChildSeq(r))[j] \notin LiveChildren(old)
     /\ LiveChildren(l) \cap LiveChildren(r) = {}
     /\ Cardinality(LiveChildren(l) \cup LiveChildren(r)) = MAX_KEYS + 2
     /\ LiveChildren(old) \subseteq LiveChildren(l) \cup LiveChildren(r)
     /\ NULL \notin LiveChildren(l) \cup LiveChildren(r)
     /\ \A c \in LiveChildren(l) : tree'.nodes[c].parent = p
     /\ \A c \in LiveChildren(r) : tree'.nodes[c].parent = q

\* C26: an internal node that holds MAX_KEYS keys and must take a separator
\* is split around the key at index MAX_KEYS/2 of the MAX_KEYS+1 merged
\* keys: that key goes up to the parent and is in neither half, the node
\* keeps the keys and children before it, the new right node gets those
\* after it, each child moved has the new node as parent, and no key and
\* no child is lost or duplicated.
C26_InternalSplit ==
  [][\A p \in SplitInternals :
        \E q \in InternalNodes(tree') \ TreeNodes(tree) : SplitAround(p, q)]_vars

\* an insert_key has just split an internal node and put a new root on top
C26_Witness ==
  /\ {"leaf_split", "internal_split", "new_root"} \subseteq tree.ev
  /\ ~tree.nodes[tree.root].is_leaf
  /\ \A c \in LiveChildren(tree.nodes[tree.root]) : ~tree.nodes[c].is_leaf

(***************************************************************************)
(* Height (IndexSpec)                                                      *)
(***************************************************************************)
\* the number of nodes on the path from node down its first children to a leaf
RECURSIVE Depth(_, _, _)
Depth(h, node, fuel) ==
  IF fuel = 0 \/ ~IsNode(h, node) THEN 0
  ELSE IF h[node].is_leaf THEN 1
  ELSE 1 + Depth(h, h[node].children[0], fuel - 1)

Height(T) == Depth(T.nodes, T.root, MaxNodes)

\* the step is an insert_key that has split the root: the new root is a new
\* internal node with 1 key and 2 children, the first of them the old root
RootSplit ==
  /\ \E k \in Keys : shadow[k] = -1 /\ shadow'[k] # -1
  /\ {"leaf_split", "new_root"} \subseteq tree'.ev
  /\ ~IsNode(tree.nodes, tree'.root)
  /\ LET r == tree'.nodes[tree'.root]
     IN /\ ~r.is_leaf /\ r.num_keys = 1 /\ r.parent = NULL
        /\ r.children[0] = tree.root
        /\ r.children[1] \notin {NULL, tree.root}
        /\ tree'.nodes[r.children[0]].parent = tree'.root
        /\ tree'.nodes[r.children[1]].parent = tree'.root

\* the step is a delete_key that has left the internal root without key:
\* the one child it has left is the root now, with no parent, and the old
\* root is gone
RootCollapse ==
  /\ \E k \in Keys : shadow[k] # -1 /\ shadow'[k] = -1
  /\ ~tree.nodes[tree.root].is_leaf
  /\ tree'.root \in LiveChildren(tree.nodes[tree.root])
  /\ tree'.nodes[tree'.root].parent = NULL
  /\ ~IsNode(tree'.nodes, tree.root)

\* C27: an insert_key or delete_key changes the height by at most 1; the
\* height grows only in an insert_key that splits the root and shrinks only
\* in a delete_key that leaves the internal root without key and makes its
\* one child the root; the root is never NULL, and a tree from which every
\* key was deleted is one leaf without keys.
C27_HeightByOne ==
  /\ [][/\ Height(tree') - Height(tree) \in {-1, 0, 1}
        /\ Height(tree') > Height(tree) => RootSplit
        /\ Height(tree') < Height(tree) => RootCollapse]_vars
  /\ [](/\ tree.root # NULL /\ IsNode(tree.nodes, tree.root)
        /\ tree.nodes[tree.root].parent = NULL
        /\ Present = {} => /\ tree.nodes[tree.root].is_leaf
                           /\ tree.nodes[tree.root].num_keys = 0
                           /\ TreeNodes(tree) = {tree.root})

\* a tree that had grown to three levels is back at two, with a key deleted
\* for the first time
C27_Witness ==
  /\ "root_collapse" \in tree.ev
  /\ Height(tree) = 2
  /\ Cardinality(Deleted) = 1

(***************************************************************************)
(* Borrowing (IndexSpec)                                                   *)
(***************************************************************************)
\* the key the delete_key of this step was called with
DeletedKey == CHOOSE k \in Keys : shadow[k] # -1 /\ shadow'[k] = -1

Deletes == \E k \in Keys : shadow[k] # -1 /\ shadow'[k] = -1

\* the leaf the key is deleted from
DeleteLeaf == find_leaf_node(tree.nodes, tree.root, DeletedKey)

\* the position of node u among the children of its parent, before the step
IndexOf(u) == NodeIndexInParent(tree.nodes[tree.nodes[u].parent], u)

\* the adjacent siblings of the non-root node u under its parent, before the step
LeftOf(u) == tree.nodes[tree.nodes[u].parent].children[IndexOf(u) - 1]
RightOf(u) == tree.nodes[tree.nodes[u].parent].children[IndexOf(u) + 1]
HasLeft(u) == IndexOf(u) > 0
HasRight(u) == IndexOf(u) < tree.nodes[tree.nodes[u].parent].num_keys

Lends(s) == tree.nodes[s].num_keys > MIN_KEYS

SomeSiblingLends(u) ==
  \/ HasLeft(u) /\ Lends(LeftOf(u))
  \/ HasRight(u) /\ Lends(RightOf(u))

\* node u, which the step has left one key short, has borrowed one entry:
\* from its left sibling if that one could lend, else from its right one
Borrowed(u) ==
  LET p == tree.nodes[u].parent
      fromLeft == HasLeft(u) /\ Lends(LeftOf(u))
      s == IF fromLeft THEN LeftOf(u) ELSE RightOf(u)
      sep == IF fromLeft THEN IndexOf(u) - 1 ELSE IndexOf(u)
      lent == IF fromLeft THEN tree.nodes[s].keys[tree.nodes[s].num_keys - 1]
              ELSE tree.nodes[s].keys[0]
      given == IF fromLeft THEN tree.nodes[s].children[tree.nodes[s].num_keys]
               ELSE tree.nodes[s].children[0]
      n == tree'.nodes[u]
      l == tree'.nodes[s]
  IN /\ IsNode(tree'.nodes, u) /\ IsNode(tree'.nodes, s) /\ IsNode(tree'.nodes, p)
     /\ n.num_keys = MIN_KEYS
     /\ l.num_keys = tree.nodes[s].num_keys - 1 /\ l.num_keys >= MIN_KEYS
     /\ Range(KeySeq(l)) = Range(KeySeq(tree.nodes[s])) \ {lent}
     /\ tree'.nodes[p].num_keys = tree.nodes[p].num_keys
     /\ \A i \in 0..(tree.nodes[p].num_keys - 1) :
           i # sep => tree'.nodes[p].keys[i] = tree.nodes[p].keys[i]
     /\ ChildSeq(tree'.nodes[p]) = ChildSeq(tree.nodes[p])
     /\ (fromLeft /\ HasRight(u)) => tree'.nodes[RightOf(u)] = tree.nodes[RightOf(u)]
     /\ (~fromLeft /\ HasLeft(u)) => tree'.nodes[LeftOf(u)] = tree.nodes[LeftOf(u)]
     /\ IF n.is_leaf
        THEN /\ Range(KeySeq(n)) = (Range(KeySeq(tree.nodes[u])) \ {DeletedKey}) \cup {lent}
             /\ tree'.nodes[p].keys[sep] = IF fromLeft THEN n.keys[0] ELSE l.keys[0]
             /\ {i \in NodeIds : IsNode(tree'.nodes, i)} = {i \in NodeIds : IsNode(tree.nodes, i)}
        ELSE /\ tree'.nodes[p].keys[sep] = lent
             /\ tree.nodes[p].keys[sep] \in Range(KeySeq(n))
             /\ given \in LiveChildren(n) /\ given \notin LiveChildren(l)
             /\ tree'.nodes[given].parent = u
             /\ InternalNodes(tree') = InternalNodes(tree)

\* C28: a non-root node left with fewer than MIN_KEYS keys by a delete,
\* next to a sibling under the same parent that holds more than MIN_KEYS
\* keys, borrows exactly one entry (the left sibling is tried first) and no
\* node is created or freed: the node then holds MIN_KEYS keys, the lender
\* one fewer and at least MIN_KEYS, the parent as many as before, and the
\* separator between the two is the smallest key of the right one (leaves)
\* or the key rotated out of the lender (internal nodes).  Nodes are merged
\* only when no adjacent sibling holds more than MIN_KEYS keys.
C28_BorrowOne ==
  [][Deletes =>
       LET u == DeleteLeaf
           v == tree.nodes[u].parent
       IN /\ (u # tree.root /\ tree.nodes[u].num_keys = MIN_KEYS /\ SomeSiblingLends(u))
               => Borrowed(u) /\ tree'.ev \subseteq {"borrow_left_leaf", "borrow_right_leaf"}
          /\ "merge_leaf" \in tree'.ev => ~SomeSiblingLends(u)
          /\ ("merge_leaf" \in tree'.ev /\ v # tree.root
                /\ tree.nodes[v].num_keys = MIN_KEYS /\ SomeSiblingLends(v))
               => Borrowed(v) /\ "merge_internal" \notin tree'.ev
          /\ "merge_internal" \in tree'.ev => ~SomeSiblingLends(v)]_vars

\* an internal node has just borrowed a key and a child from its left sibling
C28_Witness ==
  /\ {"merge_leaf", "borrow_left_internal"} \subseteq tree.ev
  /\ Height(tree) = 3

(***************************************************************************)
(* Merging (IndexSpec)                                                     *)
(***************************************************************************)
\* the pair merged when the non-root node u finds no lender: u goes into its
\* left sibling, or, when u is the leftmost child, its right sibling into u
MergeLeft(u) == IF HasLeft(u) THEN LeftOf(u) ELSE u
MergeRight(u) == IF HasLeft(u) THEN u ELSE RightOf(u)
MergeSep(u) == IF HasLeft(u) THEN IndexOf(u) - 1 ELSE IndexOf(u)

Without(sq, x) == SelectSeq(sq, LAMBDA y : y # x)

Unreachable(r) ==
  /\ r \notin TreeNodes(tree')
  /\ r \notin Range(ChainOf(tree'))
  /\ ~IsNode(tree'.nodes, r)

\* the parent p of a merged pair has lost the separator sep and the
\* reference to the removed node r, and nothing else
LostOne(p, sep, r) ==
  /\ IsNode(tree'.nodes, p)
  /\ tree'.nodes[p].num_keys = tree.nodes[p].num_keys - 1
  /\ KeySeq(tree'.nodes[p]) = Without(KeySeq(tree.nodes[p]), sep)
  /\ ChildSeq(tree'.nodes[p]) = Without(ChildSeq(tree.nodes[p]), r)

\* the leaf u, one key short after the delete, has been merged with a sibling
MergedLeaf(u) ==
  LET l == MergeLeft(u)
      r == MergeRight(u)
      p == tree.nodes[u].parent
      sep == tree.nodes[p].keys[MergeSep(u)]
      n == tree'.nodes[l]
  IN /\ IsNode(tree'.nodes, l) /\ n.is_leaf
     /\ KeySeq(n) = Without(KeySeq(tree.nodes[l]) \o KeySeq(tree.nodes[r]), DeletedKey)
     /\ \A i \in 0..(n.num_keys - 1) : n.file_offsets[i] = shadow[n.keys[i]]
     /\ n.num_keys <= MAX_KEYS
     /\ Unreachable(r)
     /\ tree'.ev = {"merge_leaf"} => LostOne(p, sep, r)
     /\ (tree'.ev \cap {"borrow_left_internal", "borrow_right_internal"} # {})
          => /\ IsNode(tree'.nodes, p)
             /\ sep \notin Range(KeySeq(tree'.nodes[p]))
             /\ r \notin LiveChildren(tree'.nodes[p])
             /\ tree'.nodes[p].num_keys = MIN_KEYS
     /\ tree'.ev = {"merge_leaf", "root_collapse"}
          => /\ p = tree.root /\ tree.nodes[p].num_keys = 1
             /\ tree'.root = l /\ n.parent = NULL /\ ~IsNode(tree'.nodes, p)

\* the internal node v, one key short after the merge of the leaves l and r
\* below it (separator lsep), has been merged with a sibling
MergedInternal(v, lsep, r) ==
  LET vl == MergeLeft(v)
      vr == MergeRight(v)
      g == tree.nodes[v].parent
      gsep == tree.nodes[g].keys[MergeSep(v)]
      n == tree'.nodes[vl]
  IN /\ IsNode(tree'.nodes, vl) /\ ~n.is_leaf
     /\ KeySeq(n) = Without(KeySeq(tree.nodes[vl]) \o <<gsep>> \o KeySeq(tree.nodes[vr]), lsep)
     /\ ChildSeq(n) = Without(ChildSeq(tree.nodes[vl]) \o ChildSeq(tree.nodes[vr]), r)
     /\ \A c \in LiveChildren(n) : tree'.nodes[c].parent = vl
     /\ n.num_keys <= MAX_KEYS
     /\ Unreachable(vr)
     /\ "root_collapse" \notin tree'.ev => LostOne(g, gsep, vr)
     /\ "root_collapse" \in tree'.ev
          => /\ g = tree.root /\ tree.nodes[g].num_keys = 1
             /\ tree'.root = vl /\ n.parent = NULL /\ ~IsNode(tree'.nodes, g)

\* C29: when an underflowing non-root node is merged with a sibling, the
\* surviving left node holds all entries of both nodes (and the parent's
\* separator when the nodes are internal) and at most MAX_KEYS keys, the
\* parent loses exactly that separator and the reference to the removed
\* right node, the removed node is reachable neither from the root nor along
\* the leaf chain, and the parent is checked for underflow in turn, so that
\* every node again holds its minimum up to the root.
C29_MergeKeepsAll ==
  [][Deletes =>
       LET u == DeleteLeaf
           v == tree.nodes[u].parent
       IN /\ "merge_leaf" \in tree'.ev => MergedLeaf(u)
          /\ "merge_internal" \in tree'.ev
               => MergedInternal(v, tree.nodes[v].keys[MergeSep(u)], MergeRight(u))
          /\ (tree'.ev \cap {"merge_leaf", "merge_internal"} # {})
               => \A n \in TreeNodes(tree') :
                     /\ tree'.nodes[n].num_keys <= MAX_KEYS
                     /\ n # tree'.root => tree'.nodes[n].num_keys >= MIN_KEYS]_vars

\* two leaves and then the two internal nodes above them have just been
\* merged, and the survivor has taken the place of the emptied root
C29_Witness ==
  /\ tree.ev = {"merge_leaf", "merge_internal", "root_collapse"}
  /\ Height(tree) = 2
  /\ tree.nodes[tree.root].num_keys = MAX_KEYS

(***************************************************************************)
(* The compacted file (FaultSpec)                                          *)
(***************************************************************************)
\* the lines of a file as fgets reads them from byte offset off on, each
\* with the offset of its first byte
RECURSIVE LinesFrom(_, _)
LinesFrom(file, off) ==
  LET buffer == FGets(file, off) IN
  IF buffer = <<>> THEN <<>>
  ELSE <<[text |-> buffer, at |-> off]>> \o LinesFrom(file, off + Len(buffer))

ValidLine(ln) == ln.text[1] = VALID_MARKER

RECURSIVE Texts(_)
Texts(lns) == IF lns = <<>> THEN <<>> ELSE Head(lns).text \o Texts(Tail(lns))

\* the bytes of the first column of a line: from behind the status byte to
\* the first separator or line end
FirstColumn(text) ==
  LET rest == SubSeq(text, 2, Len(text))
      ends == {j \in 1..Len(rest) : rest[j] \in {"|", NL}}
  IN IF ends = {} THEN rest
     ELSE SubSeq(rest, 1, (CHOOSE j \in ends : \A q \in ends : j <= q) - 1)

\* the file is made of the valid lines of old, unchanged and in their order
KeepsValidLines(old, new) == new = Texts(SelectSeq(LinesFrom(old, 0), ValidLine))

NoDeletedLine(new) ==
  \A i \in 1..Len(LinesFrom(new, 0)) : LinesFrom(new, 0)[i].text[1] # DELETED_MARKER

\* the index gives, for every line of the file, the line's offset under the
\* integer in its first column
IndexesLines(index, new) ==
  \A i \in 1..Len(LinesFrom(new, 0)) :
     LET ln == LinesFrom(new, 0)[i] IN
     search_key(index, atoi(FirstColumn(ln.text))) = ln.at

\* a line was dropped: the file is shorter, and every line kept from behind a
\* dropped line starts earlier than it did
MovesUp(old, new) ==
  LET lns == LinesFrom(old, 0)
      dropped == {i \in 1..Len(lns) : lns[i].text[1] = DELETED_MARKER}
      kept == SelectSeq(lns, ValidLine)
  IN dropped # {}
       => /\ Len(new) < Len(old)
          /\ \A j \in 1..Len(kept) :
                (\E i \in dropped : lns[i].at < kept[j].at)
                  => /\ j <= Len(LinesFrom(new, 0))
                     /\ LinesFrom(new, 0)[j].at < kept[j].at

\* C30: after a compact_table that succeeds the data file is made of exactly
\* the lines that had the status byte ' ', unchanged and in their order, and
\* holds no line starting with '#'; the new index gives, for each of these
\* lines, the line's offset in the new file under the integer parsed from
\* its first column; and when a deleted line was there, the file is shorter
\* and every line kept from behind a dropped one has a smaller offset.
C30_CompactedFile ==
  [][Compacted
       => /\ KeepsValidLines(DataFile(world), DataFile(world'))
          /\ NoDeletedLine(DataFile(world'))
          /\ IndexesLines(world'.tb.primary_index, DataFile(world'))
          /\ MovesUp(DataFile(world), DataFile(world'))]_vars

\* the part of C30 about deleted lines alone
C30_NoDeleted ==
  [][Compacted => NoDeletedLine(DataFile(world'))]_vars

\* the part of C30 about the index alone
C30_Index ==
  [][Compacted => IndexesLines(world'.tb.primary_index, DataFile(world'))]_vars

(***************************************************************************)
(* An update_row that fails half way (FaultSpec)                           *)
(***************************************************************************)
\* the step is an update_row of a key the index holds, whose marking step
\* has gone through and whose append step has failed
UpdateFailsInAppend ==
  /\ Calls("update") /\ HasKey(world, last'.key)
  /\ last'.fail[1] = "none" /\ last'.fail[2] \in AppendFails

\* C31: update_row marks the old record deleted and flushes the mark before
\* it appends the new row, and changes the index only after the new row is
\* flushed: when the seek to the end, the tell, a write or the flush of the
\* new row fails, update_row returns -1, the index still gives the old
\* offset for the key, the byte at that offset is '#', read_row finds
\* nothing for the key, and insert_row of the key is rejected as a conflict.
\* When the marking step itself fails nothing is appended and the index is
\* as it was.
C31_UpdateFailsHalfWay ==
  [][/\ UpdateFailsInAppend
        => LET k == last'.key
               old == search_key(world.tb.primary_index, k)
           IN /\ last'.ret = -1
              /\ world'.tb.primary_index = world.tb.primary_index
              /\ search_key(world'.tb.primary_index, k) = old
              /\ DataFile(world')[old + 1] = DELETED_MARKER
              /\ ~Readable(world', k).found
              /\ \A v \in ValueVectors :
                    /\ insert_row(world', k, v, "none").ret = -1
                    /\ insert_row(world', k, v, "none").W = world'
     /\ (Calls("update") /\ HasKey(world, last'.key) /\ last'.fail[1] \in MarkFails)
        => /\ last'.ret = -1
           /\ world'.tb.primary_index = world.tb.primary_index
           /\ Len(DataFile(world')) = Len(DataFile(world))]_vars

\* an update_row of a row that could be read has just failed in its append
\* step: the key is in the index and cannot be read
C31_Witness ==
  /\ last.op = "update" /\ last.ret = -1 /\ last.had
  /\ last.fail[1] = "none" /\ last.fail[2] \in AppendFails
  /\ ~InvalidTable(world)
  /\ HasKey(world, last.key)
  /\ ~Readable(world, last.key).found
  /\ DataFile(world)[search_key(world.tb.primary_index, last.key) + 1] = DELETED_MARKER

(***************************************************************************)
(* A table created over a file that holds rows (FaultSpec)                 *)
(***************************************************************************)
\* the state create_table leaves behind: the file as it was found, no key in
\* the index, nothing to read, and every insert_row taken at the end of the
\* file
AsCreated ==
  /\ ~InvalidTable(world)
  /\ world.tb.data_file = world.dir[DataPath]
  /\ DataFile(world) \in Preexisting
  /\ world.tb.primary_index = initialize_tree
  /\ \A k \in TableKeys :
        /\ ~HasKey(world, k)
        /\ ~Readable(world, k).found
        /\ \A v \in ValueVectors :
              /\ insert_row(world, k, v, "none").ret = Len(DataFile(world))
              /\ HasKey(insert_row(world, k, v, "none").W, k)

\* the entries of an index: the pairs of key and offset held in its leaves
Entries(T) ==
  IF T = NULL_TREE \/ T.root = NULL THEN {}
  ELSE UNION {{<<T.nodes[n].keys[i], T.nodes[n].file_offsets[i]>> :
                 i \in 0..(T.nodes[n].num_keys - 1)} : n \in Leaves(T)}

\* the step is an insert_row or an update_row that succeeds and entry e is
\* its own: the key of the call at the end of the file as it was, where the
\* line of the call now stands
OwnLine(e) ==
  /\ last'.op \in {"insert", "update"}
  /\ e = <<last'.key, last'.ret>>
  /\ last'.ret = Len(DataFile(world))
  /\ world'.tb.data_file = world.tb.data_file
  /\ SubSeq(DataFile(world'), Len(DataFile(world)) + 1, Len(DataFile(world')))
       = RowBytes(last'.vals, world.tb.column_count)

\* C32: create_table over a data file that holds rows keeps the content of
\* the file and starts with an empty index: read_row finds nothing for the
\* keys stored in the file, insert_row of such a key succeeds and returns
\* the length the file had; and no operation other than compact_table gives
\* the index an entry for a line it has not written itself.
C32_IndexStartsEmpty ==
  /\ [](ops = 0 => AsCreated)
  /\ [][(ops' = ops + 1 /\ last'.op # "compact")
          => \A e \in Entries(world'.tb.primary_index) \ Entries(world.tb.primary_index) :
                OwnLine(e)]_vars

\* key 1, stored in the file create_table found, has been inserted without
\* conflict behind the line that was there
C32_Witness ==
  /\ ops = 1 /\ last.op = "insert" /\ last.key = 1 /\ last.fail = NoFail
  /\ last.ret = Len(RowBytes(<<Dec(1), <<"a">>>>, ColumnCount))
  /\ SubSeq(DataFile(world), 1, last.ret) = RowBytes(<<Dec(1), <<"a">>>>, ColumnCount)
  /\ Readable(world, 1).found

(***************************************************************************)
(* Separators (IndexSpec)                                                  *)
(***************************************************************************)
\* the keys stored in the leaves below node
SubtreeKeys(h, node) ==
  UNION {Range(KeySeq(h[l])) : l \in {m \in Subtree(h, node, MaxNodes) : h[m].is_leaf}}

\* the keys of node n ascend strictly and bound the keys below its children
Separates(h, n) ==
  /\ \A i \in 0..(h[n].num_keys - 2) : h[n].keys[i] < h[n].keys[i + 1]
  /\ \A i \in 0..h[n].num_keys :
        \A key \in SubtreeKeys(h, h[n].children[i]) :
           /\ i > 0 => key >= h[n].keys[i - 1]
           /\ i < h[n].num_keys => key < h[n].keys[i]

\* C33: after every insert_key and delete_key the keys s_0 < ... < s_{k-1} of
\* every internal node bound the keys below its children (those below
\* children[i] are >= s_{i-1} and < s_i), so that the descent of
\* find_leaf_node ends in the one leaf that holds the key when the key is
\* stored, also when a separator is a key that has been deleted.
C33_SearchTree ==
  /\ \A n \in InternalNodes(tree) : Separates(tree.nodes, n)
  /\ \A k \in Present :
        /\ k \in Range(KeySeq(tree.nodes[find_leaf_node(tree.nodes, tree.root, k)]))
        /\ \A l \in Leaves(tree) :
              k \in Range(KeySeq(tree.nodes[l]))
                => l = find_leaf_node(tree.nodes, tree.root, k)

\* a tree of three levels in which a separator of the root is a key that is
\* no longer stored, while every stored key is found
C33_Witness ==
  /\ Height(tree) = 3
  /\ \E i \in 0..(tree.nodes[tree.root].num_keys - 1) :
        tree.nodes[tree.root].keys[i] \notin Present
  /\ Present # {}
  /\ \A k \in Present : search_key(tree, k) = shadow[k]

(***************************************************************************)
(* Balance (IndexSpec)                                                     *)
(***************************************************************************)
\* the numbers of edges from node down to the leaves below it
RECURSIVE LeafDepths(_, _, _)
LeafDepths(h, node, fuel) ==
  IF fuel = 0 \/ ~IsNode(h, node) THEN {}
  ELSE IF h[node].is_leaf THEN {0}
  ELSE {d + 1 : d \in UNION {LeafDepths(h, h[node].children[i], fuel - 1) :
                                i \in 0..h[node].num_keys}}

\* C34: after every insert_key and delete_key all leaves are at the same
\* depth: every path from the root to a leaf has the same number of edges.
C34_Balanced ==
  /\ Cardinality(LeafDepths(tree.nodes, tree.root, MaxNodes)) = 1
  /\ \A n \in InternalNodes(tree) :
        \A i \in 0..tree.nodes[n].num_keys : IsNode(tree.nodes, tree.nodes[n].children[i])

\* the split of a leaf has just split the node above it and put a new root
\* on top: every leaf is two edges below the root
C34_Witness ==
  /\ {"leaf_split", "internal_split", "new_root"} \subseteq tree.ev
  /\ LeafDepths(tree.nodes, tree.root, MaxNodes) = {2}
  /\ Cardinality(Leaves(tree)) >= 6

(***************************************************************************)
(* A table created over an empty file, its calls meeting no failure        *)
(***************************************************************************)
PlainInit == TableInit /\ DataFile(world) = <<>>

PlainSpec == PlainInit /\ [][TableNext]_vars

\* the data file of the table: the one its handle is on, or, when a
\* compact_table has left it without handle, the one create_table opened
TableFile(W) ==
  IF W.tb.data_file # NULL THEN DataFile(W) ELSE W.files[W.dir[DataPath]]

\* the places of the entries of an index: leaf and slot
Slots(T) ==
  IF T = NULL_TREE \/ T.root = NULL THEN {}
  ELSE {<<n, i>> \in Leaves(T) \X (0..(MAX_KEYS - 1)) : i < T.nodes[n].num_keys}

\* C35: for a table created over an empty file whose calls meet no I/O
\* failure, after any sequence of insert_row, update_row, delete_row,
\* rollback_transaction and compact_table the entries of the index and the
\* lines with status byte ' ' correspond one to one: the offset of every
\* entry is the first byte of such a line (none points at a '#' line or
\* past the end of the file) and every such line is the offset of exactly
\* one entry.
C35_IndexMatchesFile ==
  LET T == world.tb.primary_index
      valid == SelectSeq(LinesFrom(TableFile(world), 0), ValidLine)
      starts == {valid[j].at : j \in 1..Len(valid)}
  IN /\ \A s \in Slots(T) :
           /\ T.nodes[s[1]].file_offsets[s[2]] \in starts
           /\ T.nodes[s[1]].file_offsets[s[2]] < Len(TableFile(world))
           /\ TableFile(world)[T.nodes[s[1]].file_offsets[s[2]] + 1] = VALID_MARKER
     /\ \A at \in starts :
           Cardinality({s \in Slots(T) : T.nodes[s[1]].file_offsets[s[2]] = at}) = 1

\* an update_row has just succeeded: the file holds the line it marked and
\* the line it appended, and the index the one entry for the latter
C35_Witness ==
  /\ last.op = "update" /\ last.ret > 0
  /\ world.tb.data_file # NULL
  /\ DataFile(world)[1] = DELETED_MARKER
  /\ DataFile(world)[last.ret + 1] = VALID_MARKER
  /\ Entries(world.tb.primary_index) = {<<last.key, last.ret>>}

(***************************************************************************)
(* Keys of the table's index (TableSpec)                                   *)
(***************************************************************************)
\* C36: after any sequence of insert_row, update_row, delete_row,
\* rollback_transaction and compact_table, with any keys and values, the
\* index of the table holds at most one entry per key: insert_key is never
\* called for a key the tree already holds.
C36_OneEntryPerKey ==
  LET T == world.tb.primary_index IN
  \A s, t \in Slots(T) :
     T.nodes[s[1]].keys[s[2]] = T.nodes[t[1]].keys[t[2]] => s = t

\* the part of C36 that holds: between compactions no key is entered twice
C36_OneEntryPerKeyUnlessCompacted ==
  [][(C36_OneEntryPerKey /\ last'.op # "compact") => C36_OneEntryPerKey']_vars

(***************************************************************************)
(* The keys that can be read, across a compaction (FaultSpec)              *)
(***************************************************************************)
ReadableKeys(W) == {k \in TableKeys : Readable(W, k).found}

\* C37: compact_table does not change which keys are readable: in every
\* reachable state (after an insert_row or update_row that failed with its
\* bytes written, after an insert_row whose first column is not the text of
\* its key, on a table created over a file that held rows) the keys read_row
\* gives values for right after a compaction that has run to its end are
\* those it gave values for right before.
C37_SameKeysReadable ==
  [][Compacted => ReadableKeys(world') = ReadableKeys(world)]_vars

\* the part of C37 that holds: on a table created over an empty file, with
\* no failure so far and every row inserted under the key in its first
\* column, no key stops being readable
C37_NoKeyLostIfPlain ==
  [][(/\ Compacted
      /\ History(last, world).fresh /\ History(last, world).clean
      /\ \A e \in Entries(world.tb.primary_index) :
            atoi(FirstColumn(FGets(DataFile(world), e[2]))) = e[1])
       => ReadableKeys(world) \subseteq ReadableKeys(world')]_vars

(***************************************************************************)
(* Termination (IndexSpec)                                                 *)
(***************************************************************************)
\* the nodes find_leaf_node visits for key from node on, cut off after fuel
\* nodes; a reference that is no node ends the walk with NULL recorded
RECURSIVE DescentPath(_, _, _, _)
DescentPath(h, node, key, fuel) ==
  IF fuel = 0 THEN <<>>
  ELSE IF ~IsNode(h, node) THEN <<NULL>>
  ELSE IF h[node].is_leaf THEN <<node>>
  ELSE <<node>> \o DescentPath(h, h[node].children[ChildSlot(h[node], key)], key, fuel - 1)

\* the nodes met from node upward along parent, cut off after fuel nodes
RECURSIVE Ancestors(_, _, _)
Ancestors(h, node, fuel) ==
  IF node = NULL \/ fuel = 0 THEN <<>>
  ELSE IF ~IsNode(h, node) THEN <<NULL>>
  ELSE <<node>> \o Ancestors(h, h[node].parent, fuel - 1)

\* the descent for key goes one level down with every node, and ends in a
\* leaf after as many nodes as the tree has levels
DescentEnds(key) ==
  LET path == DescentPath(tree.nodes, tree.root, key, MaxNodes + 1) IN
  /\ path # <<>> /\ NULL \notin Range(path)
  /\ Len(path) = Height(tree)
  /\ path[1] = tree.root
  /\ tree.nodes[path[Len(path)]].is_leaf
  /\ path[Len(path)] = find_leaf_node(tree.nodes, tree.root, key)
  /\ \A i \in 1..(Len(path) - 1) :
        /\ ~tree.nodes[path[i]].is_leaf
        /\ Depth(tree.nodes, path[i + 1], MaxNodes) = Depth(tree.nodes, path[i], MaxNodes) - 1

\* the walk from node n to the parent, the parent's parent and so on ends at
\* the root, after at most as many nodes as the tree has levels
AscentEnds(n) ==
  LET up == Ancestors(tree.nodes, n, MaxNodes + 1) IN
  /\ up # <<>> /\ NULL \notin Range(up)
  /\ Len(up) <= Height(tree)
  /\ up[Len(up)] = tree.root
  /\ \A i, j \in 1..Len(up) : i # j => up[i] # up[j]

Allocated(T) == {i \in NodeIds : IsNode(T.nodes, i)}

\* C39: every search_key, insert_key and delete_key on a well-formed tree
\* terminates: the descent of find_leaf_node goes one level down with every
\* step until it is at a leaf, and the splits of insert_into_parent and the
\* underflows of handle_underflow and merge_nodes move from a node to its
\* parent only, and stop at the root: an insert_key makes at most one node
\* per level and one root, a delete_key frees at most one node per level.
C39_Terminates ==
  /\ [](/\ \A key \in Keys : DescentEnds(key)
        /\ \A n \in TreeNodes(tree) : AscentEnds(n))
  /\ [][/\ Cardinality(Allocated(tree') \ Allocated(tree)) <= Height(tree) + 1
        /\ Cardinality(Allocated(tree) \ Allocated(tree')) <= Height(tree)
        /\ "internal_split" \in tree'.ev => "leaf_split" \in tree'.ev
        /\ "new_root" \in tree'.ev
             => Cardinality(Allocated(tree') \ Allocated(tree)) = Height(tree) + 1
        /\ "merge_internal" \in tree'.ev => "merge_leaf" \in tree'.ev
        /\ "root_collapse" \in tree'.ev
             => Cardinality(Allocated(tree) \ Allocated(tree')) = Height(tree)]_vars

\* a split has just gone from a leaf through the node above it to the root
\* of a tree of two levels, which now has three
C39_Witness ==
  /\ tree.ev = {"leaf_split", "internal_split", "new_root"}
  /\ Height(tree) = 3
  /\ \A key \in Keys : Len(DescentPath(tree.nodes, tree.root, key, MaxNodes + 1)) = 3

(***************************************************************************)
(* Parent references (IndexSpec)                                           *)
(***************************************************************************)
\* C40: after every insert_key and delete_key the parent reference of the
\* root is NULL and every child in use of every internal node refers back to
\* that node: children[i].parent = n for i in 0..n.num_keys, for the
\* children moved by an internal split, borrow or merge and for a node and
\* its new sibling when a split goes up.
C40_ParentsConsistent ==
  /\ tree.nodes[tree.root].parent = NULL
  /\ \A n \in InternalNodes(tree) :
        \A i \in 0..tree.nodes[n].num_keys :
           /\ IsNode(tree.nodes, tree.nodes[n].children[i])
           /\ tree.nodes[tree.nodes[n].children[i]].parent = n

\* an internal node has just taken the first child of its right sibling, in
\* a tree of three levels
C40_Witness ==
  /\ "borrow_right_internal" \in tree.ev
  /\ Height(tree) = 3
  /\ \E n \in InternalNodes(tree) \ {tree.root} :
        /\ tree.nodes[n].num_keys = MIN_KEYS
        /\ tree.nodes[tree.nodes[n].children[MIN_KEYS]].parent = n

(***************************************************************************)
(* The Database as a state machine: one Database, driven by create_table.  *)
(* No other function writes db->tables or db->table_count.  world.disk is  *)
(* the set of data files that exist.                                        *)
(*  "names": any name over the letters 1..MaxNames, in either case.        *)
(*  "fill" : the next unused name, so that table_count reaches MAX_TABLES, *)
(*            with fewer kinds of column arguments and of failures.        *)
(***************************************************************************)
MaxNames == 1

TableNames ==
  IF workload = "names"
  THEN {NULL_STR, Str(<<>>)} \cup {Str(<<c>>) : c \in 1..MaxNames}
                             \cup {Str(<<c + UpperCase>>) : c \in 1..MaxNames}
  ELSE {Str(<<>>), Str(<<1>>), Str(<<db.table_count + 1>>)}

ColumnArgs ==
  {[given |-> TRUE, column_count |-> 1, empty_at |-> 0],
   [given |-> TRUE, column_count |-> 0, empty_at |-> 0],
   [given |-> TRUE, column_count |-> MAX_COLUMNS + 1, empty_at |-> 0],
   [given |-> TRUE, column_count |-> 2, empty_at |-> 2]}
  \cup IF workload # "names" THEN {}
       ELSE {[given |-> TRUE, column_count |-> 2, empty_at |-> 0],
             [given |-> TRUE, column_count |-> MAX_COLUMNS, empty_at |-> 0],
             [given |-> FALSE, column_count |-> 1, empty_at |-> 0],
             [given |-> TRUE, column_count |-> -1, empty_at |-> 0],
             [given |-> TRUE, column_count |-> 1, empty_at |-> 1],
             [given |-> TRUE, column_count |-> MAX_COLUMNS, empty_at |-> MAX_COLUMNS]}

FailsOffered == IF workload = "names" THEN CreateFails ELSE {"none", "mutex"}

DatabaseInit ==
  /\ NoThreads
  /\ tree = NULL_TREE /\ shadow = <<>> /\ gen = <<>>
  /\ workload \in {"names", "fill"}
  /\ db = create_database
  /\ world = [disk |-> {}]
  /\ last = [op |-> "none"]
  /\ status = <<>>
  /\ ops = 0

Created(table_name, c, fail, r) ==
  /\ db' = r.db
  /\ world' = [disk |-> r.disk]
  /\ last' = [op |-> "create_table", table_name |-> table_name,
              columns |-> [given |-> c.given, empty_at |-> c.empty_at],
              column_count |-> c.column_count, fail |-> fail, ret |-> r.ret]
  /\ UNCHANGED <<tree, shadow, gen, workload, status, ops, hvars>>

CreateTable ==
  \E table_name \in TableNames, c \in ColumnArgs, fail \in FailsOffered :
     Created(table_name, c, fail,
             db_create_table(db, world.disk, table_name,
                             [given |-> c.given, empty_at |-> c.empty_at],
                             c.column_count, fail))

DatabaseNext == CreateTable

DatabaseSpec == DatabaseInit /\ [][DatabaseNext]_vars

\* the names of the registered tables
Registered(D) == {D.tables[i] : i \in 0..(D.table_count - 1)}

\* the call recorded in a has one of the flaws create_table rejects: an empty
\* name, a column count of 0 or above MAX_COLUMNS, an empty column name, a
\* full Database, or a name that is registered already
Flawed(D, a) ==
  \/ a.table_name = Str(<<>>)
  \/ a.column_count = 0
  \/ a.column_count > MAX_COLUMNS
  \/ a.columns.empty_at \in 1..a.column_count
  \/ D.table_count = MAX_TABLES
  \/ a.table_name \in Registered(D)

\* C20: create_table returns NULL and leaves the Database's table list and
\* table_count unchanged when the name is empty, the column count is 0 or
\* above MAX_COLUMNS, a column name is empty, table_count equals MAX_TABLES or
\* the name is registered already; a successful call grows table_count by
\* exactly 1; and always table_count <= MAX_TABLES and the registered names
\* are pairwise distinct.
C20_CreateTableValidated ==
  /\ [][last'.op = "create_table"
          => /\ Flawed(db, last') => last'.ret = NULL_STR /\ db' = db
             /\ last'.ret # NULL_STR => db'.table_count = db.table_count + 1]_vars
  /\ [](/\ db.table_count <= MAX_TABLES
        /\ \A i, j \in 0..(db.table_count - 1) :
              i # j => db.tables[i] # db.tables[j])

\* a full Database has just rejected a call whose only flaw is that the
\* Database is full
C20_Witness ==
  /\ db.table_count = MAX_TABLES
  /\ last.op = "create_table"
  /\ last.ret = NULL_STR
  /\ last.table_name = Str(<<MAX_TABLES + 1>>)
  /\ last.columns.given /\ last.column_count = 1 /\ last.columns.empty_at = 0
  /\ last.fail = "none"

(***************************************************************************)
(* The data files of the tables of one Database (DatabaseSpec)             *)
(***************************************************************************)
\* the data file create_table opens for a table of this name:
\* scaffolded_resources/<lowercase name>/<lowercase name>.dat
FileOf(table_name) == lowercase(table_name[1])

\* C38: two tables registered under different names in one Database never
\* use the same data file: every create_table that succeeds opens a file
\* that no other table of the Database has open.
C38_OneFilePerTable ==
  \A i, j \in 0..(db.table_count - 1) :
     i # j => FileOf(db.tables[i]) # FileOf(db.tables[j])

\* the part of C38 that holds: no name is registered twice, and the file of
\* every registered table is on disk
C38_NamesDiffer ==
  /\ \A i, j \in 0..(db.table_count - 1) : i # j => db.tables[i] # db.tables[j]
  /\ \A i \in 0..(db.table_count - 1) : FileOf(db.tables[i]) \in world.disk

====
